---- MODULE Spec2Model ----
(***************************************************************************)
(* A model of the jdwp-client crate of jdb-rs: the multiplexing JDWP       *)
(* client (handshake, id-sizes negotiation, send(), the packet receive     *)
(* pump), the raw transport's reader task, the event dispatcher with its   *)
(* handler tasks, and the typed value codec the client decodes replies     *)
(* and event composites with.                                              *)
(*                                                                         *)
(* The inbound byte stream is modelled at frame granularity: the peer      *)
(* hands whole frames (header fields and payload bytes), a framing error   *)
(* or end-of-stream to the reader task.  Payloads are byte sequences and   *)
(* are decoded by the operators below exactly as codec.rs decodes them.    *)
(***************************************************************************)
EXTENDS Integers, Sequences, FiniteSets, TLC

\* ------------------------------------------------------------------ bounds

\* Number of user tasks that call send() concurrently once create() returned.
NCallers == 2
\* Number of frames / stream terminations the peer emits after the preamble.
MaxPeerPackets == 3
\* Number of event composites the peer emits in the dispatcher specification.
MaxComposites == 2
\* Number of handlers on_event() registers in the dispatcher specification.
MaxHandlers == 2

\* ------------------------------------------------------- program constants

\* static JDWP_HANDSHAKE: &[u8; 14] = b"JDWP-Handshake"
JDWP_HANDSHAKE == <<74, 68, 87, 80, 45, 72, 97, 110, 100, 115, 104, 97, 107, 101>>
\* size_of::<u32>() * 2 + size_of::<u8>() + size_of::<u16>()
MIN_PACKET_LENGTH == 11
\* Flags::new_reply(): bit 7
FLAG_REPLY == 128
\* Flags::new_command()
FLAG_COMMAND == 0

\* ------------------------------------------------------------ byte helpers

Byte == 0..255

Take(s, n) == SubSeq(s, 1, n)
Drop(s, n) == SubSeq(s, n + 1, Len(s))

RECURSIVE Zeros(_)
Zeros(n) == IF n <= 0 THEN <<>> ELSE <<0>> \o Zeros(n - 1)

\* i32::from_be_bytes, computed without leaving the 32-bit range
I32(b) ==
    (IF b[1] >= 128 THEN b[1] - 256 ELSE b[1]) * 16777216
        + b[2] * 65536 + b[3] * 256 + b[4]

\* put_i32 of a non-negative value
PutInt(n) ==
    << (n \div 16777216) % 256, (n \div 65536) % 256, (n \div 256) % 256, n % 256 >>

\* results of a decode step: a value and the bytes left, an error, or a panic
Ok(v, rest) == [st |-> "ok", val |-> v, rest |-> rest]
Err(e) == [st |-> "err", val |-> e, rest |-> <<>>]
Panic == [st |-> "panic", val |-> "panic", rest |-> <<>>]

\* the ? operator: an error or a panic ends the decode, a value goes on
Bind(r, K(_, _)) == IF r.st # "ok" THEN r ELSE K(r.val, r.rest)

\* ---------------------------------------------------------------- id sizes

IdSizesNew(object, method, field, frame) ==
    [object_id_size |-> object, method_id_size |-> method,
     field_id_size |-> field, frame_id_size |-> frame]

IdSizesDefault == IdSizesNew(8, 8, 8, 8)

\* ------------------------------------------------------------- value codec

DecodeByte(data) ==
    IF Len(data) < 1 THEN Err("NotEnoughBytes") ELSE Ok(data[1], Drop(data, 1))

DecodeInt(data) ==
    IF Len(data) < 4 THEN Err("NotEnoughBytes")
    ELSE Ok(I32(Take(data, 4)), Drop(data, 4))

\* i64 kept as its eight big-endian bytes
DecodeLong(data) ==
    IF Len(data) < 8 THEN Err("NotEnoughBytes")
    ELSE Ok(Take(data, 8), Drop(data, 8))

\* u32 bitfield kept as its four big-endian bytes
DecodeClassStatus(data) ==
    IF Len(data) < 4 THEN Err("NotEnoughBytes")
    ELSE Ok(Take(data, 4), Drop(data, 4))

\* An Id is the u64 as its eight big-endian bytes.  The width comes from the
\* codec table; the length check comes first, then buffer[(8 - len)..] panics
\* when len exceeds 8.
DecodeId(data, len) ==
    IF Len(data) < len THEN Err("NotEnoughBytes")
    ELSE IF len > 8 THEN Panic
    ELSE Ok(Zeros(8 - len) \o Take(data, len), Drop(data, len))

\* an encoder that emits the high-order bytes
EncodeIdHigh(id, len) ==
    IF len > 8 THEN Panic
    ELSE Ok(Take(id, len), <<>>)

\* to_bytes[(8 - len)..][..len]: the low-order bytes; 8 - len leaves usize
\* when len exceeds 8
EncodeId(id, len) ==
    IF len > 8 THEN Panic
    ELSE Ok(Take(Drop(id, 8 - len), len), <<>>)

\* std's UTF-8 validation (String::from_utf8)
Cont(b) == b >= 128 /\ b <= 191

RECURSIVE Utf8Valid(_)
Utf8Valid(s) ==
    IF Len(s) = 0 THEN TRUE
    ELSE LET b == s[1] IN
         IF b < 128 THEN Utf8Valid(Drop(s, 1))
         ELSE IF b >= 194 /\ b <= 223
              THEN Len(s) >= 2 /\ Cont(s[2]) /\ Utf8Valid(Drop(s, 2))
         ELSE IF b >= 224 /\ b <= 239
              THEN /\ Len(s) >= 3
                   /\ s[2] >= (IF b = 224 THEN 160 ELSE 128)
                   /\ s[2] <= (IF b = 237 THEN 159 ELSE 191)
                   /\ Cont(s[3])
                   /\ Utf8Valid(Drop(s, 3))
         ELSE IF b >= 240 /\ b <= 244
              THEN /\ Len(s) >= 4
                   /\ s[2] >= (IF b = 240 THEN 144 ELSE 128)
                   /\ s[2] <= (IF b = 244 THEN 143 ELSE 191)
                   /\ Cont(s[3]) /\ Cont(s[4])
                   /\ Utf8Valid(Drop(s, 4))
         ELSE FALSE

\* len as usize of a negative Int is huge: decoder.data[..len] panics whenever
\* len exceeds the bytes that remain.
DecodeString(data) ==
    Bind(DecodeInt(data), LAMBDA len, rest :
        IF len < 0 \/ len > Len(rest) THEN Panic
        ELSE IF ~Utf8Valid(Take(rest, len)) THEN Err("Utf8DecodeError")
        ELSE Ok(Take(rest, len), Drop(rest, len)))

TypeTagTryFrom(b) == IF b \in {1, 2, 3} THEN Ok(b, <<>>) ELSE Err("IllegalByteTag")

TagValues == {91, 66, 67, 76, 70, 68, 73, 74, 83, 86, 90, 115, 116, 103, 108, 99}
TagTryFrom(b) == IF b \in TagValues THEN Ok(b, <<>>) ELSE Err("IllegalByteTag")

SuspendPolicyTryFrom(b) == IF b \in {0, 1, 2} THEN Ok(b, <<>>) ELSE Err("UnknownTag")

EventKindValues ==
    {1, 2, 3, 4, 5, 6, 7, 8, 9, 10, 20, 21, 30, 40, 41, 42, 43, 44, 45, 46, 90, 99, 100}
EventKindTryFrom(b) ==
    IF b \in EventKindValues THEN Ok(b, <<>>) ELSE Err("IllegalByteTag")

\* the raw Buf getters (get_u8, get_u16, get_f32, ...) panic on a short buffer
GetRaw(data, n) ==
    IF Len(data) < n THEN Panic ELSE Ok(Take(data, n), Drop(data, n))

DecodeTypeTag(data) ==
    Bind(DecodeByte(data), LAMBDA b, rest :
    Bind(TypeTagTryFrom(b), LAMBDA t, none : Ok(t, rest)))

DecodeLocation(data, sizes) ==
    Bind(DecodeTypeTag(data), LAMBDA tag, r1 :
    Bind(DecodeId(r1, sizes.object_id_size), LAMBDA class, r2 :
    Bind(DecodeId(r2, sizes.method_id_size), LAMBDA method, r3 :
    Bind(DecodeLong(r3), LAMBDA offset, r4 :
    Ok(<<tag, class, method, offset>>, r4)))))

ValuePayload(t, data, sizes) ==
    IF t \in {91, 76, 115, 116, 103, 108, 99} THEN DecodeId(data, sizes.object_id_size)
    ELSE IF t = 66 THEN DecodeByte(data)
    ELSE IF t = 67 THEN GetRaw(data, 2)
    ELSE IF t = 70 THEN GetRaw(data, 4)
    ELSE IF t = 68 THEN GetRaw(data, 8)
    ELSE IF t = 73 THEN DecodeInt(data)
    ELSE IF t = 74 THEN DecodeLong(data)
    ELSE IF t = 83 THEN GetRaw(data, 2)
    ELSE IF t = 86 THEN Ok(<<>>, data)
    ELSE GetRaw(data, 1)

DecodeValue(data, sizes) ==
    Bind(DecodeByte(data), LAMBDA b, rest :
    Bind(TagTryFrom(b), LAMBDA t, none :
    Bind(ValuePayload(t, rest, sizes), LAMBDA v, r2 : Ok(<<t, v>>, r2))))

\* impl JdwpDecodable for TaggedObjectId: todo!()
DecodeTaggedObjectId(data) == Panic

\* ------------------------------------------------------------ event decode

\* Payload fields per EventKind, in the order Event::decode reads them.
\* ClassPrepare reads its status as one Byte.
EventFields(kind) ==
    CASE kind \in {1, 2, 40, 41} -> <<"int", "oid", "loc">>
      [] kind = 4 -> <<"int", "oid", "loc", "tagged", "loc">>
      [] kind \in {6, 7, 90} -> <<"int", "oid">>
      [] kind = 8 -> <<"int", "oid", "typetag", "oid", "string", "byte">>
      [] kind = 9 -> <<"int", "string">>
      [] kind = 20 -> <<"int", "oid", "typetag", "oid", "fid", "oid">>
      [] kind = 21 -> <<"int", "oid", "typetag", "oid", "fid", "oid", "value">>
      [] kind = 42 -> <<"int", "oid", "loc", "value">>
      [] kind \in {43, 44} -> <<"int", "oid", "tagged", "loc">>
      [] kind = 45 -> <<"int", "oid", "tagged", "loc", "long">>
      [] kind = 46 -> <<"int", "oid", "tagged", "loc", "byte">>
      [] kind = 99 -> <<"int">>
      [] OTHER -> <<>>

\* The Event variant built for a kind: the MonitorContendedEntered arm builds
\* Event::MonitorContendedEnter.
EventVariant(kind) == IF kind = 44 THEN 43 ELSE kind

DecodeField(data, sizes, ty) ==
    CASE ty = "int" -> DecodeInt(data)
      [] ty = "oid" -> DecodeId(data, sizes.object_id_size)
      [] ty = "fid" -> DecodeId(data, sizes.field_id_size)
      [] ty = "loc" -> DecodeLocation(data, sizes)
      [] ty = "tagged" -> DecodeTaggedObjectId(data)
      [] ty = "typetag" -> DecodeTypeTag(data)
      [] ty = "string" -> DecodeString(data)
      [] ty = "value" -> DecodeValue(data, sizes)
      [] ty = "long" -> DecodeLong(data)
      [] OTHER -> DecodeByte(data)

RECURSIVE DecodeFields(_, _, _, _)
DecodeFields(data, sizes, fields, acc) ==
    IF Len(fields) = 0 THEN Ok(acc, data)
    ELSE Bind(DecodeField(data, sizes, Head(fields)), LAMBDA v, rest :
              DecodeFields(rest, sizes, Tail(fields), Append(acc, v)))

DecodeEvent(data, sizes) ==
    Bind(DecodeByte(data), LAMBDA b, rest :
    Bind(EventKindTryFrom(b), LAMBDA k, none :
        IF k = 100 THEN Panic
        ELSE Bind(DecodeFields(rest, sizes, EventFields(k), <<>>), LAMBDA fs, r2 :
                  Ok([kind |-> EventVariant(k), fields |-> fs], r2))))

DecodeItem(data, sizes, ty) ==
    IF ty = "event" THEN DecodeEvent(data, sizes) ELSE DecodeField(data, sizes, ty)

RECURSIVE DecodeItems(_, _, _, _, _)
DecodeItems(data, sizes, ty, n, acc) ==
    IF n = 0 THEN Ok(acc, data)
    ELSE Bind(DecodeItem(data, sizes, ty), LAMBDA v, rest :
              DecodeItems(rest, sizes, ty, n - 1, Append(acc, v)))

\* impl JdwpDecodable for Vec<T>
DecodeVec(data, sizes, ty) ==
    Bind(DecodeInt(data), LAMBDA n, rest :
        IF n < 0 THEN Err("UnexpectedNegativeInt")
        ELSE DecodeItems(rest, sizes, ty, n, <<>>))

\* to_events: every decode error becomes InvalidData(NotAnEventError)
NotAnEvent(r) == IF r.st = "err" THEN Err("InvalidData") ELSE r

\* to_events past its check of the command: the suspend policy, then the
\* events
DecodeComposite(command, sizes) ==
    NotAnEvent(
        Bind(DecodeByte(command.data), LAMBDA p, rest :
        Bind(SuspendPolicyTryFrom(p), LAMBDA policy, none :
        Bind(DecodeVec(rest, sizes, "event"), LAMBDA evs, r2 :
        Ok([policy |-> policy, events |-> evs], r2)))))

\* a to_events that takes every inbound command for a composite
EventsOfAnyCommand(command, sizes) == DecodeComposite(command, sizes)

to_events(command, sizes) ==
    IF ~(command.command_set = 64 /\ command.command = 100) THEN Err("InvalidData")
    ELSE DecodeComposite(command, sizes)

\* ----------------------------------------------------------- reply decode

\* The commands of the catalog the model issues: (command_set, command)
CommandData(cmd) ==
    CASE cmd = "AllThreads" -> [command_set |-> 1, command |-> 4]
      [] cmd = "Dispose" -> [command_set |-> 1, command |-> 6]
      [] OTHER -> [command_set |-> 1, command |-> 7]

\* None of the three has input fields: the encoded payload is empty.
EncodeCommand(cmd, sizes) == <<>>

\* T::Reply::decode, fields in declaration order
DecodeReply(cmd, data, sizes) ==
    CASE cmd = "IdSizes" ->
            Bind(DecodeFields(data, sizes, <<"int", "int", "int", "int", "int">>, <<>>),
                 LAMBDA v, rest :
                    Ok([field_id_size |-> v[1], method_id_size |-> v[2],
                        object_id_size |-> v[3], refernce_type_id_size |-> v[4],
                        frame_id_size |-> v[5]], rest))
      [] cmd = "AllThreads" -> DecodeVec(data, sizes, "oid")
      [] OTHER -> Ok(<<>>, data)

\* ------------------------------------------------------------------ state

VARIABLES
    createPc,      \* where create() stands
    createErr,     \* the error create() failed with
    client,        \* "none", "alive" (constructed), "dropped"
    peerPc,        \* "pre" (preamble not written), "frames", "closed"
    peerReport,    \* the five widths the peer reports for IdSizes
    inPre,         \* preamble bytes the peer wrote
    wire,          \* inbound items the reader task has not read yet
    peerSent,      \* number of items the peer emitted after its preamble
    outWire,       \* chunks written to the outbound stream, in order
    sinkBroken,    \* the outbound stream has failed
    readerPc,      \* the raw transport's reader task
    rawChan,       \* unbounded channel reader task -> receive pump
    pumpPc,        \* the receive pump
    pumpItem,      \* the packet the pump is processing
    next_id,       \* AtomicU32 request counter
    one_shots,     \* pending-reply table: id -> caller holding the receiver
    codec,         \* the codec's IdSizes table
    codecReaders,  \* read guards held on the codec RwLock
    codecWriter,   \* write guard held on the codec RwLock
    sinkOwner,     \* caller holding the sink mutex, -1 when free
    acquired,      \* ids in the order their callers acquired the sink mutex
    pc,            \* where each send() call stands
    cid,           \* the id each send() was assigned
    ccmd,          \* the command each send() carries
    rx,            \* replies delivered to each caller's single-shot receiver
    result,        \* what each send() returned
    encSizes,      \* the table each send() encoded against
    decSizes,      \* the table each send() decoded against
    afterClose,    \* whether each send() was issued after the peer had closed
    afterFail,     \* whether each send() was issued after a reply decode had failed
    eventChan,     \* unbounded channel receive pump -> event dispatcher
    event_handlers,\* the registered handlers, in registration order
    onPc,          \* on_event(): idle, or waiting for the handler-list write lock
    handlersRead,  \* the dispatcher holds the handler-list read lock
    dispPc,        \* the event dispatcher
    buffered,      \* the dispatcher's VecDeque of composites not yet flushed
    tasks,         \* the dispatcher's JoinSet: handler tasks in spawn order
    handled,       \* per handler, the (policy, event) pairs it was invoked with
    flushedWith,   \* per flushed composite, the handlers registered at the flush
    given,         \* codec units: the input a unit is exercised on
    src,           \* codec units: the byte buffer a decoder reads from
    got            \* codec units: what the unit returned, in order

vars ==
    << createPc, createErr, client, peerPc, peerReport, inPre, wire, peerSent,
       outWire, sinkBroken, readerPc, rawChan, pumpPc, pumpItem, next_id,
       one_shots, codec, codecReaders, codecWriter, sinkOwner, acquired, pc,
       cid, ccmd, rx, result, encSizes, decSizes, afterClose, afterFail,
       eventChan,
       event_handlers, onPc, handlersRead, dispPc, buffered, tasks, handled,
       flushedWith, given, src, got >>

\* the state of the codec units, which no step of a connection touches
unitVars == << given, src, got >>
createVars == << createPc, createErr, client >>
peerVars == << peerPc, peerReport, inPre, wire, peerSent, unitVars >>
readerVars == << readerPc, rawChan >>
pumpVars == << pumpPc, pumpItem >>
lockVars == << codecReaders, codecWriter >>
callVars == << pc, cid, ccmd, rx, result, encSizes, decSizes, afterClose, afterFail >>
evVars == << event_handlers, onPc, handlersRead, dispPc, buffered, tasks, handled,
            flushedWith >>
sinkVars == << outWire, sinkBroken, sinkOwner, acquired >>

\* caller 0 is the send(IdSizes) inside create(); the others are user tasks
Callers == 0..NCallers
Users == 1..NCallers

Handlers == 1..MaxHandlers

EmptyMap == [i \in {} |-> 0]
NoSizes == IdSizesNew(0, 0, 0, 0)
NoItem == [kind |-> "none", id |-> 0, error_code |-> 0, command_set |-> 0,
           command |-> 0, data |-> <<>>]

\* ------------------------------------------------------------------- peer

\* what a peer may report for IdSizes: fieldIdSize, methodIdSize,
\* objectIdSize, referenceTypeIdSize, frameIdSize
PeerReports == { <<4, 4, 4, 4, 4>>, <<2, 3, 5, 6, 7>> }

\* preambles a peer may answer with: the right one, two wrong ones of the
\* right length, and one cut short by the peer closing
PeerPreambles ==
    { JDWP_HANDSHAKE,
      [JDWP_HANDSHAKE EXCEPT ![14] = 102],
      [JDWP_HANDSHAKE EXCEPT ![1] = 106],
      Take(JDWP_HANDSHAKE, 13) }

IdSizesPayload(r) ==
    PutInt(r[1]) \o PutInt(r[2]) \o PutInt(r[3]) \o PutInt(r[4]) \o PutInt(r[5])

\* one thread id, value 1, in the peer's object width
PeerThread(r) == Zeros(r[3] - 1) \o <<1>>
ThreadsPayload(r) == PutInt(1) \o PeerThread(r)

\* a composite with policy All carrying one VmStart
VmStartPayload(r) == <<2>> \o PutInt(1) \o <<90>> \o PutInt(0) \o PeerThread(r)

Frame(id, flags, var, data) ==
    [k |-> "frame", id |-> id, flags |-> flags, var |-> var, data |-> data]
ErrorItem == [k |-> "error", id |-> 0, flags |-> 0, var |-> 0, data |-> <<>>]
EofItem == [k |-> "eof", id |-> 0, flags |-> 0, var |-> 0, data |-> <<>>]

\* JDWP error constant InvalidObject
INVALID_OBJECT == 20

ReplyFrames(r, ids) ==
    { Frame(i, FLAG_REPLY, 0, d) :
        i \in ids, d \in {IdSizesPayload(r), ThreadsPayload(r)} }
    \cup { Frame(i, FLAG_REPLY, INVALID_OBJECT, <<>>) : i \in ids }

CommandFrames(r) ==
    { Frame(0, FLAG_COMMAND, 64 * 256 + 100, VmStartPayload(r)),
      Frame(0, FLAG_COMMAND, 1 * 256 + 1, <<>>) }

\* The peer answers the preamble.  A preamble cut short is followed by the
\* peer closing the stream.
PeerPreamble ==
    /\ peerPc = "pre"
    /\ \E p \in PeerPreambles :
          /\ inPre' = p
          /\ peerPc' = IF Len(p) < 14 THEN "closed" ELSE "frames"
    /\ UNCHANGED << peerReport, wire, peerSent, unitVars >>
    /\ UNCHANGED << createVars, readerVars, pumpVars, lockVars, callVars, sinkVars,
                    next_id, one_shots, codec, eventChan, evVars >>

\* The peer emits one frame.  Reply ids range over the ids assigned so far
\* and one id no send() has been assigned.
PeerSend ==
    /\ peerPc = "frames"
    /\ wire = <<>>
    /\ peerSent < MaxPeerPackets
    /\ \E f \in ReplyFrames(peerReport, 1..next_id) \cup CommandFrames(peerReport) :
          wire' = <<f>>
    /\ peerSent' = peerSent + 1
    /\ UNCHANGED << peerPc, peerReport, inPre, unitVars >>
    /\ UNCHANGED << createVars, readerVars, pumpVars, lockVars, callVars, sinkVars,
                    next_id, one_shots, codec, eventChan, evVars >>

\* The peer emits bytes that do not frame: the inbound stream ends with an
\* error, whatever follows.
PeerGarbage ==
    /\ peerPc = "frames"
    /\ wire = <<>>
    /\ wire' = <<ErrorItem>>
    /\ peerPc' = "garbled"
    /\ UNCHANGED << peerReport, inPre, peerSent, unitVars >>
    /\ UNCHANGED << createVars, readerVars, pumpVars, lockVars, callVars, sinkVars,
                    next_id, one_shots, codec, eventChan, evVars >>

\* The peer closes the connection.
PeerClose ==
    /\ peerPc \in {"pre", "frames"}
    /\ wire = <<>>
    /\ wire' = <<EofItem>>
    /\ peerPc' = "closed"
    /\ UNCHANGED << peerReport, inPre, peerSent, unitVars >>
    /\ UNCHANGED << createVars, readerVars, pumpVars, lockVars, callVars, sinkVars,
                    next_id, one_shots, codec, eventChan, evVars >>

\* ------------------------------------------------------- create(): handshake

\* handshake(): output.write_all(JDWP_HANDSHAKE)
HandshakeWrite ==
    /\ createPc = "hs_write"
    /\ outWire' = Append(outWire, [k |-> "pre", id |-> 0, part |-> 0, bytes |-> JDWP_HANDSHAKE])
    /\ createPc' = "hs_read"
    /\ UNCHANGED << createErr, client, sinkBroken, sinkOwner, acquired >>
    /\ UNCHANGED << peerVars, readerVars, pumpVars, lockVars, callVars,
                    next_id, one_shots, codec, eventChan, evVars >>

\* a handshake that accepts whatever 14 bytes it read
HandshakeAcceptsAll(buf) == TRUE

\* the comparison of the 14 bytes read with JDWP_HANDSHAKE
HandshakeMatches(buf) == buf = JDWP_HANDSHAKE

\* handshake(): read_exact of 14 bytes and the comparison; on success the
\* rest of create_client up to the construction of the client: the raw
\* transport with its reader task, the event dispatcher and the receive pump
\* are spawned.
HandshakeRead ==
    /\ createPc = "hs_read"
    /\ \/ /\ Len(inPre) >= 14
          /\ IF HandshakeMatches(Take(inPre, 14))
             THEN /\ createPc' = "negotiate"
                  /\ client' = "alive"
                  /\ readerPc' = "run"
                  /\ dispPc' = "loop"
                  /\ pumpPc' = "recv"
                  /\ UNCHANGED createErr
             ELSE /\ createPc' = "failed"
                  /\ createErr' = "InvalidData"
                  /\ UNCHANGED << client, readerPc, dispPc, pumpPc >>
       \/ /\ Len(inPre) < 14
          /\ peerPc = "closed"
          /\ createPc' = "failed"
          /\ createErr' = "UnexpectedEof"
          /\ UNCHANGED << client, readerPc, dispPc, pumpPc >>
    /\ UNCHANGED << rawChan, pumpItem >>
    /\ UNCHANGED << event_handlers, onPc, handlersRead, buffered, tasks, handled,
                    flushedWith >>
    /\ UNCHANGED << peerVars, lockVars, callVars, sinkVars,
                    next_id, one_shots, codec, eventChan >>

\* --------------------------------------------------------- raw transport

\* RawCodec::decode's reading of the header: bit 7 of the flags tells a
\* reply (variable field = error code) from a command (variable field =
\* command set, command).
IsReply(flags) == (flags \div 128) % 2 = 1

AnyRawPacket(f) ==
    IF IsReply(f.flags)
    THEN [kind |-> "reply", id |-> f.id, error_code |-> f.var,
          command_set |-> 0, command |-> 0, data |-> f.data]
    ELSE [kind |-> "command", id |-> f.id, error_code |-> 0,
          command_set |-> f.var \div 256, command |-> f.var % 256, data |-> f.data]

ErrPacket == [NoItem EXCEPT !.kind = "err"]

PumpRunning == pumpPc \in {"recv", "codec", "dispatch"}

\* The reader task: while let Some(packet) = raw_stream.next().await
\* { tx.send(packet).unwrap() }.  After an error item the framed stream
\* ends.  The send panics once the receive pump has dropped the receiver.
ReaderForward ==
    /\ readerPc = "run"
    /\ wire # <<>>
    /\ LET item == Head(wire) IN
       /\ wire' = Tail(wire)
       /\ IF item.k = "eof"
          THEN readerPc' = "done" /\ UNCHANGED rawChan
          ELSE IF ~PumpRunning
          THEN readerPc' = "panicked" /\ UNCHANGED rawChan
          ELSE IF item.k = "error"
          THEN readerPc' = "done" /\ rawChan' = Append(rawChan, ErrPacket)
          ELSE UNCHANGED readerPc /\ rawChan' = Append(rawChan, AnyRawPacket(item))
    /\ UNCHANGED << peerPc, peerReport, inPre, peerSent, unitVars >>
    /\ UNCHANGED << createVars, pumpVars, lockVars, callVars, sinkVars,
                    next_id, one_shots, codec, eventChan, evVars >>

\* ------------------------------------------------------------ receive pump

\* the codec RwLock is fair: a reader is not admitted while a writer holds
\* the lock or waits for it
CodecReadable == ~codecWriter /\ createPc # "codec_wait"

\* a pump that hands a reply to every caller that waits
ReplyTargetAny(table, id) == {table[i] : i \in DOMAIN table}

\* one_shots.remove(&id): the sender the reply goes to, if any
ReplyTarget(table, id) == IF id \in DOMAIN table THEN {table[id]} ELSE {}

\* a lookup that empties the table
ClearTable(table, id) == EmptyMap

\* a lookup that leaves the entry in the table
KeepEntry(table, id) == table

\* the table once the pump has looked the id up
AfterRemove(table, id) == [i \in DOMAIN table \ {id} |-> table[i]]

RawReply(item) == [id |-> item.id, error_code |-> item.error_code, data |-> item.data]

\* raw_stream.next().await and, for a packet, codec.read().await.  A framing
\* error clears the pending table and panics; the end of the stream ends
\* the loop.
PumpRecv ==
    /\ pumpPc = "recv"
    /\ \/ /\ rawChan # <<>>
          /\ Head(rawChan).kind = "err"
          /\ rawChan' = Tail(rawChan)
          /\ one_shots' = EmptyMap
          /\ pumpPc' = "panicked"
          /\ UNCHANGED << pumpItem, codecReaders >>
       \/ /\ rawChan # <<>>
          /\ Head(rawChan).kind # "err"
          /\ CodecReadable
          /\ rawChan' = Tail(rawChan)
          /\ pumpItem' = Head(rawChan)
          /\ codecReaders' = codecReaders + 1
          /\ pumpPc' = "dispatch"
          /\ UNCHANGED one_shots
       \/ /\ rawChan = <<>>
          /\ readerPc \in {"done", "panicked"}
          /\ pumpPc' = "done"
          /\ UNCHANGED << rawChan, pumpItem, codecReaders, one_shots >>
    /\ UNCHANGED << readerPc, codecWriter >>
    /\ UNCHANGED << createVars, peerVars, callVars, sinkVars, next_id, codec, eventChan, evVars >>

\* the receiver of caller c's single-shot channel is gone: send() returned,
\* or its future was dropped while it awaited the reply
ReceiverDropped(c) == pc[c] \in {"done", "cancelled"}

\* The match on the packet, read guard held; the guard is released at the
\* end of the iteration.
PumpDispatch ==
    /\ pumpPc = "dispatch"
    /\ codecReaders' = codecReaders - 1
    /\ pumpItem' = NoItem
    /\ IF pumpItem.kind = "command"
       THEN LET r == to_events(pumpItem, codec) IN
            \* event_tx.send(events).expect(..): the dispatcher is gone
            /\ eventChan' = IF r.st = "ok" /\ dispPc # "done"
                             THEN Append(eventChan, r.val) ELSE eventChan
            /\ pumpPc' = IF r.st = "panic" \/ (r.st = "ok" /\ dispPc = "done")
                          THEN "panicked" ELSE "recv"
            /\ UNCHANGED << one_shots, rx >>
       ELSE LET to == ReplyTarget(one_shots, pumpItem.id) IN
            /\ one_shots' = AfterRemove(one_shots, pumpItem.id)
            /\ rx' = [c \in Callers |->
                        IF c \in to /\ ~ReceiverDropped(c)
                        THEN Append(rx[c], RawReply(pumpItem)) ELSE rx[c]]
            \* sender.send(reply).expect(..): the receiver was dropped
            /\ pumpPc' = IF \E c \in to : ReceiverDropped(c) THEN "panicked" ELSE "recv"
            /\ UNCHANGED eventChan
    /\ UNCHANGED << pc, cid, ccmd, result, encSizes, decSizes, afterClose, afterFail,
                    codecWriter >>
    /\ UNCHANGED << createVars, peerVars, readerVars, sinkVars, next_id, codec, evVars >>

\* -------------------------------------------------- the client is dropped

\* tasks that are spawned detached: dropping the handle leaves them running
Detached(p) == p

\* JoinSet::drop aborts every task of the set that has not finished
JoinSetAbort(p) == IF p \in {"idle", "done", "panicked", "aborted"} THEN p ELSE "aborted"

\* the write half of the connection is shut down when the sink is dropped
FinChunk == [k |-> "fin", id |-> 0, part |-> 0, bytes |-> <<>>]

\* Drop of JdwpClient, field by field: the JoinSet aborts the receive pump
\* and the event dispatcher (whose own JoinSet aborts the handler tasks that
\* have not completed), the sink closes the outbound stream, and the
\* pending-reply table goes with its last owner, senders included.
ClientDrop ==
    /\ client' = "dropped"
    /\ pumpPc' = JoinSetAbort(pumpPc)
    /\ pumpItem' = NoItem
    /\ codecReaders' = 0
    /\ dispPc' = JoinSetAbort(dispPc)
    /\ handlersRead' = FALSE
    /\ tasks' = [i \in 1..Len(tasks) |->
                    IF tasks[i].st \in {"Done", "Failed"} THEN tasks[i]
                    ELSE [tasks[i] EXCEPT !.st = "Aborted"]]
    /\ one_shots' = EmptyMap
    /\ outWire' = Append(outWire, FinChunk)

\* what a step that does not drop the client leaves alone
ClientKept ==
    UNCHANGED << client, pumpPc, pumpItem, codecReaders, dispPc, handlersRead, tasks,
                 one_shots, outWire >>

\* ------------------------------------------------- create(): negotiation

\* `as usize` of an i32 on a 64-bit target: a negative value becomes a
\* value of at least 2^64 - 2^31, above every buffer length; it is
\* represented by the largest integer the checker has
HUGE_USIZE == 2147483647
AsUsize(n) == IF n < 0 THEN HUGE_USIZE ELSE n

\* a create() that leaves the codec table as it was built
KeepDefaultSizes(reply) == IdSizesDefault

\* a create() that stores the first four ints of the reply in wire order
SizesInWireOrder(reply) ==
    IdSizesNew(AsUsize(reply.field_id_size), AsUsize(reply.method_id_size),
               AsUsize(reply.object_id_size), AsUsize(reply.refernce_type_id_size))

\* IdSizes::new(object, method, field, frame) from the IdSizes reply
NegotiatedSizes(reply) ==
    IdSizesNew(AsUsize(reply.object_id_size), AsUsize(reply.method_id_size),
               AsUsize(reply.field_id_size), AsUsize(reply.frame_id_size))

\* client.send(IdSizesCommand).await? : an error drops the client, and with
\* it the JoinSet of the pump.
CreateAfterSend ==
    /\ createPc = "negotiate"
    /\ pc[0] = "done"
    /\ IF result[0].st = "ok"
       THEN /\ createPc' = "codec_wait"
            /\ UNCHANGED createErr
            /\ ClientKept
       ELSE /\ createPc' = "failed"
            /\ createErr' = result[0].err
            /\ ClientDrop
    /\ UNCHANGED << codecWriter, sinkBroken, sinkOwner, acquired >>
    /\ UNCHANGED << event_handlers, onPc, buffered, handled, flushedWith >>
    /\ UNCHANGED << peerVars, readerVars, callVars, next_id, codec, eventChan >>

\* client.codec.write().await
CodecWriteAcquire ==
    /\ createPc = "codec_wait"
    /\ codecReaders = 0
    /\ codecWriter' = TRUE
    /\ createPc' = "codec_write"
    /\ UNCHANGED << createErr, client, codecReaders >>
    /\ UNCHANGED << peerVars, readerVars, pumpVars, callVars, sinkVars,
                    next_id, one_shots, codec, eventChan, evVars >>

\* a create() that clears the table before it stores the widths
CodecWriteInTwoSteps ==
    /\ createPc = "codec_write"
    /\ codec' = IF codec = IdSizesDefault THEN NoSizes
                ELSE NegotiatedSizes(result[0].val)
    /\ codecWriter' = (codec = IdSizesDefault)
    /\ createPc' = IF codec = IdSizesDefault THEN "codec_write" ELSE "returned"
    /\ UNCHANGED << createErr, client, codecReaders >>
    /\ UNCHANGED << peerVars, readerVars, pumpVars, callVars, sinkVars,
                    next_id, one_shots, eventChan, evVars >>

\* *codec.id_sizes_mut() = new_id_sizes; drop(codec); Ok(client)
CodecWrite ==
    /\ createPc = "codec_write"
    /\ codec' = NegotiatedSizes(result[0].val)
    /\ codecWriter' = FALSE
    /\ createPc' = "returned"
    /\ UNCHANGED << createErr, client, codecReaders >>
    /\ UNCHANGED << peerVars, readerVars, pumpVars, callVars, sinkVars,
                    next_id, one_shots, eventChan, evVars >>

\* ------------------------------------------------------------------ send()

NoResult == [st |-> "none", err |-> "", val |-> <<>>]
OkResult(v) == [st |-> "ok", err |-> "", val |-> v]
ErrResult(e) == [st |-> "err", err |-> e, val |-> <<>>]
PanicResult == [st |-> "panic", err |-> "", val |-> <<>>]

UserCommands == {"AllThreads", "Dispose"}

\* RawCodec::encode of a command packet: length, id, flags, command set,
\* command, payload
EncodePacket(id, cmd, data) ==
    PutInt(MIN_PACKET_LENGTH + Len(data)) \o PutInt(id) \o <<FLAG_COMMAND>>
        \o <<CommandData(cmd).command_set, CommandData(cmd).command>> \o data

\* the outbound stream takes a packet in two writes
Chunk(c, part) ==
    LET bytes == EncodePacket(cid[c], ccmd[c], EncodeCommand(ccmd[c], encSizes[c])) IN
    [k |-> "cmd", id |-> cid[c], part |-> part,
     bytes |-> IF part = 1 THEN Take(bytes, 4) ELSE Drop(bytes, 4)]

\* who may begin a send(): create() its IdSizes, a user task any command
\* once create() returned the client; dispose() takes the client by value,
\* so no other call is in progress or begins after it
MayBegin(c, cmd) ==
    IF c = 0
    THEN createPc = "negotiate" /\ cmd = "IdSizes"
    ELSE /\ createPc = "returned"
         /\ client = "alive"
         /\ cmd \in UserCommands
         /\ cmd = "Dispose" => \A d \in Users \ {c} : pc[d] \in {"idle", "done"}

\* a counter that is read without being advanced
FetchNoAdd(n) == n

\* next_id.fetch_add(1, SeqCst): the counter after the call
FetchAdd(n) == n + 1

\* the command is encoded under a read guard of the codec, then the id is
\* drawn: next_id.fetch_add(1)
SendEncode(c) ==
    /\ pc[c] = "idle"
    /\ CodecReadable
    /\ \E cmd \in UserCommands \cup {"IdSizes"} :
          /\ MayBegin(c, cmd)
          /\ ccmd' = [ccmd EXCEPT ![c] = cmd]
          /\ client' = IF cmd = "Dispose" THEN "disposing" ELSE client
    /\ encSizes' = [encSizes EXCEPT ![c] = codec]
    /\ afterClose' = [afterClose EXCEPT ![c] = (peerPc = "closed")]
    /\ afterFail' = [afterFail EXCEPT ![c] =
                        \E d \in Users \ {c} : result[d] = ErrResult("InvalidData")]
    /\ cid' = [cid EXCEPT ![c] = next_id]
    /\ next_id' = FetchAdd(next_id)
    /\ pc' = [pc EXCEPT ![c] = "insert"]
    /\ UNCHANGED << createPc, createErr, rx, result, decSizes >>
    /\ UNCHANGED << peerVars, readerVars, pumpVars, lockVars, sinkVars,
                    one_shots, codec, eventChan, evVars >>

\* a send() that registers no channel
InsertNothing(table, id, c) == table

\* HashMap::insert(id, tx): the table with the sender of caller c under id
InsertEntry(table, id, c) ==
    [i \in DOMAIN table \cup {id} |-> IF i = id THEN c ELSE table[i]]

\* one_shots.write().await.insert(id, tx)
SendInsert(c) ==
    /\ pc[c] = "insert"
    /\ one_shots' = InsertEntry(one_shots, cid[c], c)
    /\ pc' = [pc EXCEPT ![c] = "lock_sink"]
    /\ UNCHANGED << cid, ccmd, rx, result, encSizes, decSizes, afterClose, afterFail >>
    /\ UNCHANGED << createVars, peerVars, readerVars, pumpVars, lockVars, sinkVars,
                    next_id, codec, eventChan, evVars >>

\* a sink without its mutex
SinkAlwaysFree(owner) == TRUE

\* raw_packet_sink.lock().await: the mutex admits one holder
SinkFree(owner) == owner = -1

\* the sink is locked and the first part of the packet written
SinkLock(c) ==
    /\ pc[c] = "lock_sink"
    /\ SinkFree(sinkOwner)
    /\ ~sinkBroken
    /\ sinkOwner' = c
    /\ acquired' = Append(acquired, cid[c])
    /\ outWire' = Append(outWire, Chunk(c, 1))
    /\ pc' = [pc EXCEPT ![c] = "writing"]
    /\ UNCHANGED << sinkBroken, cid, ccmd, rx, result, encSizes, decSizes, afterClose, afterFail >>
    /\ UNCHANGED << createVars, peerVars, readerVars, pumpVars, lockVars,
                    next_id, one_shots, codec, eventChan, evVars >>

\* the rest of the packet is written and the guard dropped
SinkWrite(c) ==
    /\ pc[c] = "writing"
    /\ outWire' = Append(outWire, Chunk(c, 2))
    /\ sinkOwner' = IF sinkOwner = c THEN -1 ELSE sinkOwner
    /\ pc' = [pc EXCEPT ![c] = "await"]
    /\ UNCHANGED << sinkBroken, acquired, cid, ccmd, rx, result, encSizes, decSizes, afterClose, afterFail >>
    /\ UNCHANGED << createVars, peerVars, readerVars, pumpVars, lockVars,
                    next_id, one_shots, codec, eventChan, evVars >>

\* what the end of a send() does to the client: dispose() drops it, and the
\* JoinSet with it
Finish(c, res) ==
    /\ pc' = [pc EXCEPT ![c] = "done"]
    /\ result' = [result EXCEPT ![c] = res]
    /\ IF ccmd[c] = "Dispose" THEN ClientDrop ELSE ClientKept

\* the error kinds a write to a closed connection fails with
SinkErrors == {"BrokenPipe", "ConnectionReset"}

\* the write fails once the peer has closed: send(raw).await? returns the
\* error; the pending-table entry stays
SinkFail(c) ==
    /\ pc[c] = "lock_sink"
    /\ SinkFree(sinkOwner)
    /\ peerPc = "closed"
    /\ sinkBroken' = TRUE
    /\ \E e \in SinkErrors : Finish(c, ErrResult(e))
    /\ UNCHANGED << sinkOwner, acquired, cid, ccmd, rx, encSizes, decSizes, afterClose, afterFail >>
    /\ UNCHANGED << createPc, createErr, codecWriter >>
    /\ UNCHANGED << event_handlers, onPc, buffered, handled, flushedWith >>
    /\ UNCHANGED << peerVars, readerVars, next_id, codec, eventChan >>

\* a send() that reports a failed decode as a lost connection
DecodeOutcomeBrokenPipe(r) ==
    IF r.st = "ok" THEN OkResult(r.val) ELSE ErrResult("BrokenPipe")

\* decoder.get::<T::Reply>().map_err(InvalidData)? : what send() returns
DecodeOutcome(r) ==
    CASE r.st = "ok" -> OkResult(r.val)
      [] r.st = "err" -> ErrResult("InvalidData")
      [] OTHER -> PanicResult

\* rx.await resolved with the reply: it is decoded under a read guard of
\* the codec, whatever its error code
RecvReply(c) ==
    /\ pc[c] = "await"
    /\ rx[c] # <<>>
    /\ CodecReadable
    /\ decSizes' = [decSizes EXCEPT ![c] = codec]
    /\ LET r == DecodeReply(ccmd[c], rx[c][1].data, codec) IN
       Finish(c, DecodeOutcome(r))
    /\ UNCHANGED << cid, ccmd, rx, encSizes, afterClose, afterFail >>
    /\ UNCHANGED << createPc, createErr, codecWriter, sinkBroken, sinkOwner, acquired >>
    /\ UNCHANGED << event_handlers, onPc, buffered, handled, flushedWith >>
    /\ UNCHANGED << peerVars, readerVars, next_id, codec, eventChan >>

\* the sender of caller c's channel is gone without having sent
SenderDropped(c) == rx[c] = <<>> /\ ~(cid[c] \in DOMAIN one_shots /\ one_shots[cid[c]] = c)

\* rx.await resolved with RecvError: BrokenPipe
RecvClosed(c) ==
    /\ pc[c] = "await"
    /\ SenderDropped(c)
    /\ Finish(c, ErrResult("BrokenPipe"))
    /\ UNCHANGED << cid, ccmd, rx, encSizes, decSizes, afterClose, afterFail >>
    /\ UNCHANGED << createPc, createErr, codecWriter, sinkBroken, sinkOwner, acquired >>
    /\ UNCHANGED << event_handlers, onPc, buffered, handled, flushedWith >>
    /\ UNCHANGED << peerVars, readerVars, next_id, codec, eventChan >>

\* ------------------------------------------------------- the client system

\* everything of a connection but its inbound transport, before create() is
\* called
NoClient(reports) ==
    /\ createPc = "hs_write"
    /\ createErr = ""
    /\ client = "none"
    /\ peerReport \in reports
    /\ inPre = <<>>
    /\ peerSent = 0
    /\ outWire = <<>>
    /\ sinkBroken = FALSE
    /\ pumpItem = NoItem
    /\ next_id = 1
    /\ one_shots = EmptyMap
    /\ codec = IdSizesDefault
    /\ codecReaders = 0
    /\ codecWriter = FALSE
    /\ sinkOwner = -1
    /\ acquired = <<>>
    /\ pc = [c \in Callers |-> "idle"]
    /\ cid = [c \in Callers |-> 0]
    /\ ccmd = [c \in Callers |-> "none"]
    /\ rx = [c \in Callers |-> <<>>]
    /\ result = [c \in Callers |-> NoResult]
    /\ encSizes = [c \in Callers |-> NoSizes]
    /\ decSizes = [c \in Callers |-> NoSizes]
    /\ afterClose = [c \in Callers |-> FALSE]
    /\ afterFail = [c \in Callers |-> FALSE]
    /\ eventChan = <<>>
    /\ event_handlers = <<>>
    /\ onPc = "idle"
    /\ handlersRead = FALSE
    /\ dispPc = "idle"
    /\ buffered = <<>>
    /\ tasks = <<>>
    /\ handled = [h \in Handlers |-> <<>>]
    /\ flushedWith = <<>>

\* the connection before create() is called
ClientInit(reports) ==
    /\ NoClient(reports)
    /\ peerPc = "pre"
    /\ wire = <<>>
    /\ readerPc = "idle"
    /\ rawChan = <<>>
    /\ pumpPc = "idle"

\* no codec unit is exercised while a connection runs
UnitIdle == given = <<>> /\ src = <<>> /\ got = <<>>

InitWith(reports) == ClientInit(reports) /\ UnitIdle

Init == InitWith(PeerReports)

Create == HandshakeWrite \/ HandshakeRead \/ CreateAfterSend \/ CodecWriteAcquire \/ CodecWrite

Peer == PeerPreamble \/ PeerSend \/ PeerGarbage \/ PeerClose

Pump == PumpRecv \/ PumpDispatch

Send(c) ==
    \/ SendEncode(c) \/ SendInsert(c) \/ SinkLock(c) \/ SinkWrite(c) \/ SinkFail(c)
    \/ RecvReply(c) \/ RecvClosed(c)

Next == Create \/ Peer \/ ReaderForward \/ Pump \/ (\E c \in Callers : Send(c))

Spec == Init /\ [][Next]_vars

\* -------------------------------------------------------- event dispatch

\* on_event(): event_handlers.write().await
OnEventBegin ==
    /\ client = "alive"
    /\ createPc = "returned"
    /\ onPc = "idle"
    /\ Len(event_handlers) < MaxHandlers
    /\ onPc' = "waiting"
    /\ UNCHANGED << event_handlers, handlersRead, dispPc, buffered, tasks, handled,
                    flushedWith >>
    /\ UNCHANGED << createVars, peerVars, readerVars, pumpVars, lockVars, callVars,
                    sinkVars, next_id, one_shots, codec, eventChan >>

\* on_event(): the write guard is granted once no read guard is out, and the
\* handler is pushed
OnEventPush ==
    /\ onPc = "waiting"
    /\ ~handlersRead
    /\ event_handlers' = Append(event_handlers, Len(event_handlers) + 1)
    /\ onPc' = "idle"
    /\ UNCHANGED << handlersRead, dispPc, buffered, tasks, handled, flushedWith >>
    /\ UNCHANGED << createVars, peerVars, readerVars, pumpVars, lockVars, callVars,
                    sinkVars, next_id, one_shots, codec, eventChan >>

\* the sender of the event channel lives in the receive pump's task
EventSenderDropped == ~PumpRunning

\* The head of the loop: recv().await when nothing is buffered, try_recv()
\* otherwise; a closed channel breaks out of the loop.
DispRecv ==
    /\ dispPc = "loop"
    /\ \/ /\ eventChan # <<>>
          /\ buffered' = Append(buffered, Head(eventChan))
          /\ eventChan' = Tail(eventChan)
          /\ dispPc' = "lock"
       \/ /\ eventChan = <<>>
          /\ ~EventSenderDropped
          /\ buffered # <<>>
          /\ dispPc' = "lock"
          /\ UNCHANGED << buffered, eventChan >>
       \/ /\ eventChan = <<>>
          /\ EventSenderDropped
          /\ dispPc' = "done"
          /\ UNCHANGED << buffered, eventChan >>
    /\ UNCHANGED << event_handlers, onPc, handlersRead, tasks, handled, flushedWith >>
    /\ UNCHANGED << createVars, peerVars, readerVars, pumpVars, lockVars, callVars,
                    sinkVars, next_id, one_shots, codec >>

NewTask(h, policy, event) == [h |-> h, policy |-> policy, event |-> event, st |-> "Init"]

\* for event in &buffered.events { join_set.spawn(..) }
EventTasks(h, comp) ==
    [i \in 1..Len(comp.events) |-> NewTask(h, comp.policy, comp.events[i])]

\* for event_handler in &*event_handlers
RECURSIVE HandlerTasks(_, _)
HandlerTasks(hs, comp) ==
    IF hs = <<>> THEN <<>>
    ELSE EventTasks(Head(hs), comp) \o HandlerTasks(Tail(hs), comp)

\* for buffered in buffered.drain(..)
RECURSIVE SpawnAll(_, _)
SpawnAll(comps, hs) ==
    IF comps = <<>> THEN <<>>
    ELSE HandlerTasks(hs, Head(comps)) \o SpawnAll(Tail(comps), hs)

\* a drain that leaves the composites in the buffer
DrainKeeps(comps) == comps

\* buffered.drain(..) empties the buffer
AfterDrain(comps) == <<>>

Range(f) == {f[i] : i \in DOMAIN f}

\* event_handlers.read().await, and the flush of the buffer into a new
\* JoinSet when a handler is registered.  The read guard is not granted
\* while on_event() waits for the write guard.
DispLock ==
    /\ dispPc = "lock"
    /\ onPc # "waiting"
    /\ handlersRead' = TRUE
    /\ IF event_handlers # <<>>
       THEN /\ tasks' = SpawnAll(buffered, event_handlers)
            /\ buffered' = AfterDrain(buffered)
            /\ flushedWith' = flushedWith \o
                  [i \in 1..Len(buffered) |->
                      [comp |-> buffered[i], hs |-> Range(event_handlers)]]
       ELSE UNCHANGED << tasks, buffered, flushedWith >>
    /\ dispPc' = "join"
    /\ UNCHANGED << event_handlers, onPc, handled >>
    /\ UNCHANGED << createVars, peerVars, readerVars, pumpVars, lockVars, callVars,
                    sinkVars, next_id, one_shots, codec, eventChan >>

\* HandleEvent::poll from Init: the handler's mutex is locked, the handler
\* function is called with (policy, event) and the guard dropped
TaskInvoke(i) ==
    /\ i \in 1..Len(tasks)
    /\ tasks[i].st = "Init"
    /\ tasks' = [tasks EXCEPT ![i].st = "OutputFuture"]
    /\ handled' = [handled EXCEPT ![tasks[i].h] =
                      Append(@, [policy |-> tasks[i].policy, event |-> tasks[i].event])]
    /\ UNCHANGED << event_handlers, onPc, handlersRead, dispPc, buffered, flushedWith >>
    /\ UNCHANGED << createVars, peerVars, readerVars, pumpVars, lockVars, callVars,
                    sinkVars, next_id, one_shots, codec, eventChan >>

\* What the handlers registered by the application return: handler h
\* returns an error for the events whose request id has the parity of h, and
\* Ok(()) for the others.
HandlerResult(h, event) ==
    IF event.fields # <<>> /\ event.fields[1] % 2 = h % 2 THEN "Failed" ELSE "Done"

\* HandleEvent::poll: the handler's future is ready with its result
TaskFinish(i) ==
    /\ i \in 1..Len(tasks)
    /\ tasks[i].st = "OutputFuture"
    /\ tasks' = [tasks EXCEPT ![i].st = HandlerResult(tasks[i].h, tasks[i].event)]
    /\ UNCHANGED << event_handlers, onPc, handlersRead, dispPc, buffered, handled,
                    flushedWith >>
    /\ UNCHANGED << createVars, peerVars, readerVars, pumpVars, lockVars, callVars,
                    sinkVars, next_id, one_shots, codec, eventChan >>

\* The client is dropped: its JoinSet aborts the receive pump and the
\* dispatcher, and the dispatcher's JoinSet aborts the handler tasks that
\* have not completed.  on_event() borrows the client, so it is not running.
DropClient ==
    /\ client = "alive"
    /\ createPc = "returned"
    /\ onPc = "idle"
    /\ \A c \in Users : pc[c] \in {"idle", "done"}
    /\ ClientDrop
    /\ UNCHANGED << createPc, createErr, codecWriter, sinkBroken, sinkOwner, acquired >>
    /\ UNCHANGED << event_handlers, onPc, buffered, handled, flushedWith >>
    /\ UNCHANGED << peerVars, readerVars, callVars, next_id, codec, eventChan >>

\* a dispatcher that leaves its loop when a handler returned an error
HaltOnError(results) == IF "Failed" \in results THEN "done" ELSE "loop"

\* if let Err(e) = join_all().await.into_iter().collect() { error!(..) }:
\* an error of a handler is logged and the loop goes on
AfterJoin(results) == "loop"

\* a join that returns with the first task that completes
JoinedFirst(ts) == ts = <<>> \/ \E i \in 1..Len(ts) : ts[i].st \in {"Done", "Failed"}

\* join_all() resolves once every task of the JoinSet has completed
JoinedAll(ts) == \A i \in 1..Len(ts) : ts[i].st \in {"Done", "Failed"}

\* join_set.join_all().await; the read guard is dropped at the end of the
\* iteration
DispJoin ==
    /\ dispPc = "join"
    /\ JoinedAll(tasks)
    /\ tasks' = <<>>
    /\ handlersRead' = FALSE
    /\ dispPc' = AfterJoin({tasks[i].st : i \in 1..Len(tasks)})
    /\ UNCHANGED << event_handlers, onPc, buffered, handled, flushedWith >>
    /\ UNCHANGED << createVars, peerVars, readerVars, pumpVars, lockVars, callVars,
                    sinkVars, next_id, one_shots, codec, eventChan >>

\* ------------------------------------------------ the dispatcher system

\* The peer of the dispatcher system sends composites only.  Composite n
\* carries suspend policy n mod 3 and two VmStart events when n is odd, one
\* when n is even, with request ids 10n+1, 10n+2: request ids grow along the
\* wire.  The peer's first frame was its IdSizes reply, so composite n is
\* its frame n+1.
VmStartEvent(req, r) == <<90>> \o PutInt(req) \o PeerThread(r)

EventsIn(n) == IF n % 2 = 1 THEN 2 ELSE 1

CompositePayload(n, r) ==
    <<n % 3>> \o PutInt(EventsIn(n)) \o VmStartEvent(10 * n + 1, r)
        \o (IF EventsIn(n) = 2 THEN VmStartEvent(10 * n + 2, r) ELSE <<>>)

EvPeerSend ==
    /\ peerPc = "frames"
    /\ wire = <<>>
    /\ peerSent <= MaxComposites
    /\ wire' = << Frame(0, FLAG_COMMAND, 64 * 256 + 100,
                        CompositePayload(peerSent, peerReport)) >>
    /\ peerSent' = peerSent + 1
    /\ UNCHANGED << peerPc, peerReport, inPre, unitVars >>
    /\ UNCHANGED << createVars, readerVars, pumpVars, lockVars, callVars, sinkVars,
                    next_id, one_shots, codec, eventChan, evVars >>

\* the reply create() received for its IdSizes command
NegotiationReply(r) == [id |-> 1, error_code |-> 0, data |-> IdSizesPayload(r)]

\* The state in which create() returns the client to its caller, after a
\* peer that answered the handshake and the IdSizes command.
EvInit ==
    /\ createPc = "returned"
    /\ createErr = ""
    /\ client = "alive"
    /\ peerPc = "frames"
    /\ peerReport \in PeerReports
    /\ inPre = JDWP_HANDSHAKE
    /\ wire = <<>>
    /\ peerSent = 1
    /\ outWire = << [k |-> "pre", id |-> 0, part |-> 0, bytes |-> JDWP_HANDSHAKE],
                    [k |-> "cmd", id |-> 1, part |-> 1,
                     bytes |-> Take(EncodePacket(1, "IdSizes", <<>>), 4)],
                    [k |-> "cmd", id |-> 1, part |-> 2,
                     bytes |-> Drop(EncodePacket(1, "IdSizes", <<>>), 4)] >>
    /\ sinkBroken = FALSE
    /\ readerPc = "run"
    /\ rawChan = <<>>
    /\ pumpPc = "recv"
    /\ pumpItem = NoItem
    /\ next_id = 2
    /\ one_shots = EmptyMap
    /\ codec = NegotiatedSizes(
                  DecodeReply("IdSizes", IdSizesPayload(peerReport), IdSizesDefault).val)
    /\ codecReaders = 0
    /\ codecWriter = FALSE
    /\ sinkOwner = -1
    /\ acquired = <<1>>
    /\ pc = [c \in Callers |-> IF c = 0 THEN "done" ELSE "idle"]
    /\ cid = [c \in Callers |-> IF c = 0 THEN 1 ELSE 0]
    /\ ccmd = [c \in Callers |-> IF c = 0 THEN "IdSizes" ELSE "none"]
    /\ rx = [c \in Callers |-> IF c = 0 THEN <<NegotiationReply(peerReport)>> ELSE <<>>]
    /\ result = [c \in Callers |->
                    IF c = 0
                    THEN OkResult(DecodeReply("IdSizes", IdSizesPayload(peerReport),
                                              IdSizesDefault).val)
                    ELSE NoResult]
    /\ encSizes = [c \in Callers |-> IF c = 0 THEN IdSizesDefault ELSE NoSizes]
    /\ decSizes = [c \in Callers |-> IF c = 0 THEN IdSizesDefault ELSE NoSizes]
    /\ afterClose = [c \in Callers |-> FALSE]
    /\ afterFail = [c \in Callers |-> FALSE]
    /\ eventChan = <<>>
    /\ event_handlers = <<>>
    /\ onPc = "idle"
    /\ handlersRead = FALSE
    /\ dispPc = "loop"
    /\ buffered = <<>>
    /\ tasks = <<>>
    /\ handled = [h \in Handlers |-> <<>>]
    /\ flushedWith = <<>>
    /\ UnitIdle

EvPeer == EvPeerSend \/ PeerClose \/ PeerGarbage

OnEvent == OnEventBegin \/ OnEventPush

Dispatcher == DispRecv \/ DispLock \/ DispJoin

HandlerTask(i) == TaskInvoke(i) \/ TaskFinish(i)

\* the most handler tasks one JoinSet holds: every handler on every event
\* the peer sends
MaxTasks == MaxHandlers * 2 * MaxComposites

EvNext ==
    \/ EvPeer \/ ReaderForward \/ Pump \/ OnEvent \/ Dispatcher \/ DropClient
    \/ \E i \in 1..MaxTasks : HandlerTask(i)

EvSpec == EvInit /\ [][EvNext]_vars

\* ------------------------------------------- the connection in service

\* Number of unsolicited frames the peer emits in the service specification.
MaxScript == 4
\* Number of packets that may wait in the pump's channel when the peer emits
\* an unsolicited frame.
MaxQueued == 1

\* ids under which no send() waits: the id of the negotiation, answered
\* before create() returned, and an id beyond those the user tasks are
\* assigned
StaleIds == {1, NCallers + 2}

\* (command set, command) pairs of inbound commands that are no composite
ForeignCommands == {1 * 256 + 1, 64 * 256 + 99, 65 * 256 + 100}

\* (64,100) payloads that do not decode: an unknown suspend policy, an
\* unknown event kind, the kind 100, an event carrying a tagged object id
\* (MonitorContendedEnter), and a payload cut before its second event
MalformedComposites(r) ==
    { <<3>> \o PutInt(1) \o VmStartEvent(31, r),
      <<2>> \o PutInt(1) \o <<200>> \o PutInt(31),
      <<2>> \o PutInt(1) \o <<100>>,
      <<2>> \o PutInt(1) \o <<43>> \o PutInt(31) \o PeerThread(r) \o <<76>> \o PeerThread(r),
      <<2>> \o PutInt(2) \o VmStartEvent(31, r) }

\* What the peer sends unasked, frame by frame after its IdSizes reply: a
\* reply under a stale id, a command that is no composite, a composite that
\* does not decode, then composites that do.
PvFrames(n, r) ==
    CASE n = 1 -> { Frame(i, FLAG_REPLY, 0, ThreadsPayload(r)) : i \in StaleIds }
      [] n = 2 -> { Frame(0, FLAG_COMMAND, v, d) :
                       v \in ForeignCommands, d \in {<<>>, VmStartPayload(r)} }
      [] n = 3 -> { Frame(0, FLAG_COMMAND, 64 * 256 + 100, d) :
                       d \in MalformedComposites(r) }
      [] OTHER -> { Frame(0, FLAG_COMMAND, 64 * 256 + 100, CompositePayload(n, r)) }

PvPeerSend ==
    /\ peerPc = "frames"
    /\ wire = <<>>
    /\ peerSent <= MaxScript
    /\ Len(rawChan) <= MaxQueued
    /\ \E f \in PvFrames(peerSent, peerReport) : wire' = <<f>>
    /\ peerSent' = peerSent + 1
    /\ UNCHANGED << peerPc, peerReport, inPre, unitVars >>
    /\ UNCHANGED << createVars, readerVars, pumpVars, lockVars, callVars, sinkVars,
                    next_id, one_shots, codec, eventChan, evVars >>

\* ids of the commands the peer has received whole
Received == {outWire[j].id : j \in {k \in 1..Len(outWire) :
                                        outWire[k].k = "cmd" /\ outWire[k].part = 2}}

\* ids of the replies on their way to the receive pump
RepliesInFlight ==
    {rawChan[j].id : j \in {k \in 1..Len(rawChan) : rawChan[k].kind = "reply"}}
        \cup (IF pumpItem.kind = "reply" THEN {pumpItem.id} ELSE {})

\* The peer answers a command it has received and not answered yet, with a
\* list of one thread or with an empty payload.
PvPeerReply ==
    /\ peerPc = "frames"
    /\ wire = <<>>
    /\ \E i \in (Received \cap DOMAIN one_shots) \ RepliesInFlight,
          d \in {ThreadsPayload(peerReport), <<>>} :
          wire' = << Frame(i, FLAG_REPLY, 0, d) >>
    /\ UNCHANGED << peerPc, peerReport, inPre, peerSent, unitVars >>
    /\ UNCHANGED << createVars, readerVars, pumpVars, lockVars, callVars, sinkVars,
                    next_id, one_shots, codec, eventChan, evVars >>

\* The peer of the service specification stays connected.
PvPeer == PvPeerSend \/ PvPeerReply

\* send() on a connection whose peer stays connected: the sink accepts the
\* packet and the sender of the reply channel is not dropped
Serve(c) == SendEncode(c) \/ SendInsert(c) \/ SinkLock(c) \/ SinkWrite(c) \/ RecvReply(c)

PvNext ==
    \/ PvPeer \/ ReaderForward \/ Pump \/ DropClient
    \/ \E c \in Users : Serve(c)

PumpSpec == EvInit /\ [][PvNext]_vars

\* ---------------------------------------------------------------- claims

\* C1: a reply packet carrying id X is delivered only to the send() call
\* that was assigned id X, and no call receives more than one reply.
C1_ReplyRouting ==
    \A c \in Callers :
        /\ Len(rx[c]) <= 1
        /\ \A i \in 1..Len(rx[c]) : rx[c][i].id = cid[c]

\* C1 witness: the negotiation and both user calls run concurrently have
\* each been handed the reply of their own id
C1_AllAnswered ==
    /\ \A c \in Callers : Len(rx[c]) = 1 /\ rx[c][1].id = cid[c]
    /\ cid[1] # cid[2]

\* C2: whenever the receive pump leaves its loop because the inbound stream
\* terminated (framing error or end of stream), it has emptied the
\* pending-reply table, so that no waiter is left behind.
C2_DrainOnTermination ==
    [][(pumpPc = "recv" /\ pumpPc' \in {"done", "panicked"}) => one_shots' = EmptyMap]_vars

\* C3: a send() issued after the peer closed can always still return: once
\* the pump has exited, a call waiting for its reply is able to complete.
C3_SendAfterCloseReturns ==
    \A c \in Users :
        (afterClose[c] /\ pc[c] = "await" /\ ~PumpRunning)
            => ENABLED (RecvReply(c) \/ RecvClosed(c))

\* the packets on the outbound stream, reassembled from consecutive chunks
CommandChunks == SelectSeq(outWire, LAMBDA ch : ch.k = "cmd")

\* C7: concurrent send() calls never interleave their bytes: on the outbound
\* stream every packet is whole, the packets follow one another in the order
\* in which the calls acquired the sink mutex, and one call writes at a time.
C7_WholePackets ==
    LET cs == CommandChunks IN
    /\ Cardinality({c \in Callers : pc[c] = "writing"}) <= 1
    /\ \A i \in 1..Len(cs) :
          /\ cs[i].part = (IF i % 2 = 1 THEN 1 ELSE 2)
          /\ cs[i].id = acquired[(i + 1) \div 2]
    /\ \A j \in 1..(Len(cs) \div 2) :
          \E c \in Callers :
              /\ cid[c] = acquired[j]
              /\ cs[2 * j - 1].bytes \o cs[2 * j].bytes
                    = EncodePacket(cid[c], ccmd[c], <<>>)

\* C7 witness: one call holds the sink in the middle of its packet while
\* another waits for the mutex, and a third packet is already out
C7_Contention ==
    /\ \E c, d \in Users : pc[c] = "writing" /\ pc[d] = "lock_sink"
    /\ Len(CommandChunks) = 3

\* send() of caller c went past rx.await and decoded the reply it was handed
Decoded(c) == pc[c] = "done" /\ rx[c] # <<>> /\ decSizes[c] # NoSizes

\* what the peer's report makes of the table, read field by field from the
\* JDWP reply layout (field, method, object, reference type, frame)
PeerSizes == IdSizesNew(peerReport[3], peerReport[2], peerReport[1], peerReport[5])

\* C8: create() sends IdSizes first, as id 1 and encoded against the default
\* 8-byte table; it does not return before the codec table holds the peer's
\* widths; every later encode and decode uses these widths; and the table is
\* never read while it is written.
C8_Negotiation ==
    /\ Len(CommandChunks) >= 2 =>
          CommandChunks[1].bytes \o CommandChunks[2].bytes = EncodePacket(1, "IdSizes", <<>>)
    /\ pc[0] # "idle" => cid[0] = 1 /\ encSizes[0] = IdSizesDefault
    /\ createPc = "returned" => codec = PeerSizes
    /\ createPc # "returned" => \A c \in Users : pc[c] = "idle"
    /\ \A c \in Users :
          /\ pc[c] # "idle" => encSizes[c] = PeerSizes
          /\ Decoded(c) => decSizes[c] = PeerSizes
          /\ (Decoded(c) /\ ccmd[c] = "AllThreads"
                /\ rx[c][1].data = ThreadsPayload(peerReport))
                => result[c] = OkResult(<< <<0, 0, 0, 0, 0, 0, 0, 1>> >>)
    /\ ~(codecWriter /\ codecReaders > 0)

\* C8 witness: create() has returned and a user's AllThreads reply, carrying
\* a thread id in the peer's width, has been decoded
C8_DecodedNarrowId ==
    /\ createPc = "returned"
    /\ PeerSizes # IdSizesDefault
    /\ \E c \in Users :
          /\ Decoded(c)
          /\ ccmd[c] = "AllThreads"
          /\ rx[c][1].data = ThreadsPayload(peerReport)
          /\ result[c].st = "ok"

\* C9: create() writes the 14 bytes "JDWP-Handshake" before anything else
\* and reads 14 bytes back before any framed packet is sent or parsed; when
\* those bytes differ, or cannot be read, create() fails with InvalidData
\* (or the read error), no client exists and no command packet is ever
\* transmitted.
C9_Handshake ==
    /\ outWire # <<>> =>
          outWire[1] = [k |-> "pre", id |-> 0, part |-> 0, bytes |-> JDWP_HANDSHAKE]
    /\ createPc \in {"hs_write", "hs_read"} =>
          /\ Len(outWire) <= 1
          /\ readerPc = "idle" /\ pumpPc = "idle"
          /\ rawChan = <<>>
    /\ (createPc \notin {"hs_write", "hs_read"} /\ inPre # JDWP_HANDSHAKE) =>
          /\ createPc = "failed"
          /\ createErr = (IF Len(inPre) = 14 THEN "InvalidData" ELSE "UnexpectedEof")
          /\ client = "none"
          /\ Len(outWire) = 1
          /\ readerPc = "idle" /\ pumpPc = "idle"
          /\ next_id = 1

\* C9 witness: the peer answered 14 bytes that are not the handshake and
\* create() has failed
C9_Rejected ==
    /\ createPc = "failed"
    /\ createErr = "InvalidData"
    /\ Len(inPre) = 14
    /\ inPre # JDWP_HANDSHAKE
    /\ wire # <<>>

\* send() of caller c returned the sink's error, before awaiting its reply
SinkFailed(c) == result[c].st = "err" /\ result[c].err \in SinkErrors

\* C10: a reply whose header carries a non-zero error code makes send()
\* complete with the structured JDWP error, and its payload is not decoded.
C10_ErrorCodeSurfaces ==
    \A c \in Callers :
        (pc[c] = "done" /\ rx[c] # <<>> /\ rx[c][1].error_code # 0 /\ ~SinkFailed(c))
            => /\ result[c].st = "err"
               /\ result[c].err = "JdwpError"
               /\ decSizes[c] = NoSizes

\* C4: no composite that is still buffered is lost: when the dispatcher
\* leaves its loop with a handler registered, its buffer is empty.
C4_BufferedDelivered ==
    [][(dispPc = "loop" /\ dispPc' = "done" /\ event_handlers # <<>>)
          => buffered = <<>>]_vars

Count(seq, x) == Cardinality({i \in 1..Len(seq) : seq[i] = x})

\* C5: no (handler, event) pair is invoked twice; a handler is invoked only
\* with events of composites flushed while it was registered, and with the
\* composite's policy; and when a batch is complete every handler registered
\* at a flush has been invoked exactly once with each event of the flushed
\* composite, composites buffered before the first registration included.
C5_ExactlyOnce ==
    /\ \A h \in Handlers : \A i, j \in 1..Len(handled[h]) :
          i # j => handled[h][i] # handled[h][j]
    /\ \A h \in Handlers : \A i \in 1..Len(handled[h]) :
          \E f \in Range(flushedWith) :
              /\ h \in f.hs
              /\ handled[h][i].policy = f.comp.policy
              /\ handled[h][i].event \in Range(f.comp.events)
    /\ tasks = <<>> =>
          \A f \in Range(flushedWith) : \A h \in f.hs : \A e \in Range(f.comp.events) :
              Count(handled[h], [policy |-> f.comp.policy, event |-> e]) = 1

\* C5 witness: two composites were buffered before the handler set became
\* non-empty and were flushed together to two handlers, and the batch is
\* complete
C5_BufferedFlushed ==
    /\ tasks = <<>>
    /\ dispPc = "loop"
    /\ Len(flushedWith) = 2
    /\ \A i \in 1..2 : flushedWith[i].hs = {1, 2}
    /\ \A h \in {1, 2} : Len(handled[h]) = 3

\* the request id an invocation's event carries
ReqId(inv) == inv.event.fields[1]

\* C6: a handler is invoked with the events in the order of the wire: the
\* events of one composite in their order, an earlier composite's before a
\* later one's.
C6_WireOrder ==
    \A h \in Handlers : \A i, j \in 1..Len(handled[h]) :
        i < j => ReqId(handled[h][i]) < ReqId(handled[h][j])

\* C11: when the outbound sink rejects the packet of a send(), that send()
\* returns the sink's error and the entry it registered under its id is no
\* longer in the pending-reply table.
C11_EntryRemovedOnSinkError ==
    [][\A c \in Callers :
          (pc[c] = "lock_sink" /\ pc'[c] = "done")
              => /\ result'[c].st = "err"
                 /\ result'[c].err \in SinkErrors
                 /\ cid[c] \notin DOMAIN one_shots']_vars

\* C12: a reply whose typed decode fails makes the send() of that request,
\* and nothing else, fail with InvalidData: the step leaves the receive
\* pump, its channel, the pending-reply table, the client and every other
\* call as they were; and a send() issued after such a failure is still
\* handed the reply the pump receives for its id.
C12_DecodeFailureIsLocal ==
    [][/\ \A c \in Users :
             (/\ pc[c] = "await" /\ pc'[c] = "done" /\ rx[c] # <<>>
              /\ DecodeReply(ccmd[c], rx[c][1].data, codec).st = "err")
                => /\ result'[c] = ErrResult("InvalidData")
                   /\ pumpPc' = pumpPc /\ rawChan' = rawChan
                   /\ one_shots' = one_shots /\ client' = client
                   /\ \A d \in Users \ {c} :
                         pc'[d] = pc[d] /\ rx'[d] = rx[d] /\ result'[d] = result[d]
       /\ \A d \in Users :
             (/\ afterFail[d] /\ pc[d] \in {"lock_sink", "writing", "await"}
              /\ pumpPc = "dispatch" /\ pumpPc' # "dispatch"
              /\ pumpItem.kind = "reply" /\ pumpItem.id = cid[d])
                => /\ rx'[d] = Append(rx[d], RawReply(pumpItem))
                   /\ pumpPc' = "recv"]_vars

\* C12 witness: one call failed with InvalidData, and a call issued after
\* that failure has received and decoded its reply while the pump runs on
C12_LaterSendAnswered ==
    \E c, d \in Users :
        /\ result[c] = ErrResult("InvalidData")
        /\ afterFail[d]
        /\ pc[d] = "done"
        /\ ccmd[d] = "AllThreads"
        /\ result[d].st = "ok"
        /\ pumpPc = "recv"

\* C13: a reply whose id has no entry in the pending-reply table is dropped:
\* the step of the pump that handles it changes neither the table nor any
\* call's channel, state or result, and the pump returns to its loop to take
\* the next packet.
C13_UnknownReplyDropped ==
    [][(/\ pumpPc = "dispatch" /\ pumpPc' # "dispatch"
        /\ pumpItem.kind = "reply" /\ pumpItem.id \notin DOMAIN one_shots
        /\ client' = client)
          => /\ one_shots' = one_shots
             /\ rx' = rx /\ pc' = pc /\ result' = result
             /\ rawChan' = rawChan /\ eventChan' = eventChan
             /\ pumpPc' = "recv"]_vars

\* C13 witness: the peer's reply under a stale id has gone through the
\* pump, which is back in its loop; one send() has been handed its own
\* reply and another still has its entry in the table
C13_StaleReplyPassed ==
    \E c, d \in Users :
        /\ peerSent = 2
        /\ wire = <<>> /\ rawChan = <<>> /\ pumpItem = NoItem
        /\ pumpPc = "recv"
        /\ pc[c] = "await" /\ rx[c] # <<>> /\ cid[c] \notin DOMAIN one_shots
        /\ pc[d] = "await" /\ rx[d] = <<>> /\ cid[d] \in DOMAIN one_shots

\* C14: an inbound command whose (command set, command) is not (64, 100) is
\* discarded: the step of the pump that handles it posts nothing to the
\* event queue, changes neither the pending-reply table nor any call, and
\* the pump returns to its loop to take the next packet.
C14_ForeignCommandDiscarded ==
    [][(/\ pumpPc = "dispatch" /\ pumpPc' # "dispatch"
        /\ pumpItem.kind = "command"
        /\ ~(pumpItem.command_set = 64 /\ pumpItem.command = 100)
        /\ client' = client)
          => /\ eventChan' = eventChan
             /\ one_shots' = one_shots
             /\ rx' = rx /\ pc' = pc /\ result' = result
             /\ rawChan' = rawChan
             /\ pumpPc' = "recv"]_vars

\* C14 witness: the peer's command that is no composite has gone through the
\* pump, which is back in its loop with an empty event queue, while a send()
\* still waits with its entry in the table
C14_ForeignCommandPassed ==
    /\ peerSent = 3
    /\ wire = <<>> /\ rawChan = <<>> /\ pumpItem = NoItem
    /\ pumpPc = "recv"
    /\ eventChan = <<>>
    /\ \E c \in Users : pc[c] = "await" /\ rx[c] = <<>> /\ cid[c] \in DOMAIN one_shots

\* C15: a (64, 100) composite whose payload does not decode is dropped as a
\* whole: the step of the pump that handles it posts nothing to the event
\* queue and the pump returns to its loop, where it goes on delivering
\* replies and events.
C15_MalformedCompositeDropped ==
    [][(/\ pumpPc = "dispatch" /\ pumpPc' # "dispatch"
        /\ pumpItem.kind = "command"
        /\ pumpItem.command_set = 64 /\ pumpItem.command = 100
        /\ to_events(pumpItem, codec).st # "ok"
        /\ client' = client)
          => /\ eventChan' = eventChan
             /\ pumpPc' = "recv"]_vars

\* some handler has been invoked with an event for which it returns an error
SomeHandlerFailed ==
    \E h \in Handlers : \E i \in 1..Len(handled[h]) :
        HandlerResult(h, handled[h][i].event) = "Failed"

\* C16: a handler that returns an error does not halt the dispatcher: the
\* join of a batch in which a handler failed takes the dispatcher back to
\* its loop, and a flush that follows a failed invocation still starts one
\* task for every registered handler and every event of every composite it
\* flushes.
C16_ErrorsDoNotHalt ==
    [][/\ (/\ dispPc = "join" /\ dispPc' # "join" /\ client' = client
           /\ \E i \in 1..Len(tasks) : tasks[i].st = "Failed")
             => dispPc' = "loop"
       /\ (/\ SomeHandlerFailed
           /\ dispPc = "lock" /\ dispPc' = "join" /\ event_handlers # <<>>)
             => \A i \in 1..Len(buffered) : \A h \in Range(event_handlers) :
                    \A e \in Range(buffered[i].events) :
                        \E t \in 1..Len(tasks') :
                            tasks'[t] = NewTask(h, buffered[i].policy, e)]_vars

\* C16 witness: handler 1 returned an error for the first event of the first
\* composite in an earlier batch, and the batch now running holds only the
\* second composite, with which both handlers have been invoked
C16_DispatchedAfterError ==
    /\ \E i \in 1..Len(handled[1]) : ReqId(handled[1][i]) = 11
    /\ HandlerResult(1, handled[1][1].event) = "Failed"
    /\ tasks # <<>>
    /\ \A t \in 1..Len(tasks) : tasks[t].event.fields[1] = 21
    /\ \A h \in Handlers : \E i \in 1..Len(handled[h]) : ReqId(handled[h][i]) = 21

\* C17: dispose() puts the Dispose command, command set 1 command 6, on the
\* wire under its id; when the peer's empty reply for that id has arrived it
\* returns without error; and at its return the pending-reply table is empty
\* and no other call is waiting.
C17_DisposeCompletes ==
    [][\A c \in Users :
          (/\ ccmd[c] = "Dispose" /\ pc[c] = "await" /\ pc'[c] = "done"
           /\ rx[c] # <<>> /\ rx[c][1].data = <<>> /\ rx[c][1].error_code = 0)
            => /\ result'[c] = OkResult(<<>>)
               /\ rx[c][1].id = cid[c]
               /\ \E j \in 1..(Len(outWire) - 1) :
                     outWire[j].bytes \o outWire[j + 1].bytes
                        = PutInt(11) \o PutInt(cid[c]) \o <<0, 1, 6>>
               /\ one_shots = EmptyMap /\ one_shots' = EmptyMap
               /\ \A d \in Users \ {c} : pc[d] \in {"idle", "done"}]_vars

\* C17 witness: a send() had been answered, then dispose() was called, the
\* peer answered it with an empty reply and dispose() has returned Ok
C17_Disposed ==
    \E c, d \in Users :
        /\ ccmd[c] = "Dispose" /\ pc[c] = "done"
        /\ rx[c] # <<>> /\ rx[c][1].data = <<>>
        /\ result[c].st = "ok"
        /\ ccmd[d] = "AllThreads" /\ pc[d] = "done" /\ result[d].st = "ok"
        /\ client = "dropped"

\* C18: once the client has been dropped the receive pump no longer runs,
\* the senders of the pending-reply table are gone, so that no send() is
\* left waiting for a reply (a waiter's channel resolves to BrokenPipe), and
\* the outbound stream has been closed as the last thing written to it.
C18_DropReleasesAll ==
    client = "dropped" =>
        /\ ~PumpRunning
        /\ one_shots = EmptyMap
        /\ \A c \in Users : pc[c] = "await" => (rx[c] # <<>> \/ SenderDropped(c))
        /\ outWire[Len(outWire)] = FinChunk
        /\ Cardinality({j \in 1..Len(outWire) : outWire[j] = FinChunk}) = 1

\* C18 witness: the application dropped the client, without dispose(), while
\* the pump was running and after one of its calls had been answered
C18_Dropped ==
    /\ client = "dropped"
    /\ pumpPc = "aborted"
    /\ \A c \in Users : ccmd[c] # "Dispose"
    /\ \E c \in Users : pc[c] = "done" /\ result[c].st = "ok"

\* the calls that have been assigned a request id
Assigned == {c \in Callers : pc[c] # "idle"}

\* C19: the request ids of a connection are 1, 2, 3, ... in the order in
\* which send() draws them: the ids assigned so far are exactly those below
\* the counter and pairwise distinct, each draw takes an id above all ids
\* drawn before, every entry of the pending-reply table belongs to the call
\* that was assigned its id, and an insertion never replaces an entry.
C19_UniqueIds ==
    /\ [](/\ {cid[c] : c \in Assigned} = 1..(next_id - 1)
          /\ \A c, d \in Assigned : c # d => cid[c] # cid[d]
          /\ \A i \in DOMAIN one_shots : one_shots[i] \in Assigned /\ cid[one_shots[i]] = i)
    /\ [][\A c \in Callers :
             /\ (pc[c] = "idle" /\ pc'[c] # "idle")
                   => /\ cid'[c] = next_id
                      /\ next_id' = next_id + 1
                      /\ \A d \in Assigned : cid[d] < cid'[c]
             /\ (pc[c] = "insert" /\ pc'[c] # "insert")
                   => /\ cid[c] \notin DOMAIN one_shots
                      /\ one_shots'[cid[c]] = c]_vars

\* C19 witness: two user calls run concurrently after the negotiation, both
\* registered and waiting, under the ids 2 and 3
C19_ThreeIds ==
    /\ cid[0] = 1
    /\ {cid[1], cid[2]} = {2, 3}
    /\ DOMAIN one_shots = {2, 3}
    /\ pc[1] = "await" /\ pc[2] = "await"

\* ------------------------------------------------ a peer with odd widths

\* IdSizes replies whose widths leave 1..8: an object width of 0, a negative
\* method width, a frame width of 9
HostileReports == { <<4, 4, 0, 4, 4>>, <<4, -1, 4, 4, 4>>, <<4, 4, 4, 4, 9>> }

\* create() against such a peer, with the negotiation as the only call
NegNext == Create \/ Peer \/ ReaderForward \/ Pump \/ Send(0)

NegSpec == InitWith(HostileReports) /\ [][NegNext]_vars

\* C20: each of the four widths of the codec's table lies in 1..8 in every
\* reachable state, whatever widths the peer's IdSizes reply reports.
C20_WidthsInRange ==
    /\ codec.object_id_size \in 1..8
    /\ codec.method_id_size \in 1..8
    /\ codec.field_id_size \in 1..8
    /\ codec.frame_id_size \in 1..8

\* ------------------------------------------ raw transport: framing codec

\* pub const MAX_PACKET_LENGTH: usize = 1 << 22
MAX_PACKET_LENGTH == 4194304

\* u32::from_be_bytes.  A value of 2^31 or more is above MAX_PACKET_LENGTH
\* and above every buffer length; it is represented by the largest integer
\* the checker has.
U32(b) ==
    IF b[1] >= 128 THEN HUGE_USIZE
    ELSE b[1] * 16777216 + b[2] * 65536 + b[3] * 256 + b[4]

PutU16(n) == << (n \div 256) % 256, n % 256 >>

\* RawCommandPacket::new_command
new_command(id, command_set, command, data) ==
    [kind |-> "command", id |-> id, error_code |-> 0,
     command_set |-> command_set, command |-> command, data |-> data]

\* RawReplyPacket::new_reply
new_reply(id, error_code, data) ==
    [kind |-> "reply", id |-> id, error_code |-> error_code,
     command_set |-> 0, command |-> 0, data |-> data]

\* header.length as both constructors compute it
HeaderLength(p) == MIN_PACKET_LENGTH + Len(p.data)

\* an encoder that marks every packet as a command
FlagsOfCommand(p) == FLAG_COMMAND

\* header.flags: Flags::new_reply() or Flags::new_command()
HeaderFlags(p) == IF p.kind = "reply" THEN FLAG_REPLY ELSE FLAG_COMMAND

\* HeaderVariableData::to_u16
ToU16(p) == IF p.kind = "reply" THEN p.error_code ELSE p.command_set * 256 + p.command

\* RawCodec::encode: length, id, flags, variable field, payload, written
\* under a limit of header.length bytes
RawEncode(p) ==
    Take(PutInt(HeaderLength(p)) \o PutInt(p.id) \o <<HeaderFlags(p)>>
            \o PutU16(ToU16(p)) \o p.data,
         HeaderLength(p))

Need(buf) == [st |-> "none", item |-> NoItem, rest |-> buf]
Framed(item, rest) == [st |-> "some", item |-> item, rest |-> rest]
FrameErr(buf) == [st |-> "err", item |-> ErrPacket, rest |-> buf]
FramePanic(buf) == [st |-> "panic", item |-> NoItem, rest |-> buf]

\* what decode leaves in the buffer when it yields a packet: advance(4),
\* get_u32, get_u8 and get_u16 consume the header; the payload is copied
\* with src[..length - MIN_PACKET_LENGTH].to_vec(), which consumes nothing
PastHeader(buf, length) == Drop(buf, MIN_PACKET_LENGTH)

\* RawCodec::decode.  The getters panic on a buffer shorter than the header,
\* and length - MIN_PACKET_LENGTH leaves usize when length is below 11: an
\* overflow panic, or a slice bound no buffer has.
RawDecode(buf) ==
    IF Len(buf) < 4 THEN Need(buf)
    ELSE LET length == U32(Take(buf, 4)) IN
         IF length > MAX_PACKET_LENGTH THEN FrameErr(buf)
         ELSE IF Len(buf) < length THEN Need(buf)
         ELSE IF Len(buf) < MIN_PACKET_LENGTH THEN FramePanic(buf)
         ELSE IF length < MIN_PACKET_LENGTH THEN FramePanic(buf)
         ELSE Framed(AnyRawPacket(Frame(U32(SubSeq(buf, 5, 8)), buf[9],
                                        buf[10] * 256 + buf[11],
                                        SubSeq(buf, 12, length))),
                     PastHeader(buf, length))

\* --------------------------------------- raw transport: the reader task

\* payloads of the packets the transport is exercised on: none, one byte,
\* and four bytes that read as a length of 11
RawPayloads == { <<>>, <<7>>, <<0, 0, 0, 11>> }

RawPackets ==
    { new_command(0, 64, 100, d) : d \in RawPayloads }
    \cup { new_reply(258, 0, d) : d \in RawPayloads }
    \cup { new_reply(1, INVALID_OBJECT, d) : d \in RawPayloads }

\* what a peer writes: two encoded packets back to back
TwoPackets ==
    { [packets |-> <<p, q>>, bytes |-> RawEncode(p) \o RawEncode(q)] :
        p \in RawPackets, q \in RawPackets }

\* or a length field outside 11..2^22 and some bytes after it
OddLengths ==
    { PutInt(0), PutInt(5), PutInt(10), PutInt(MAX_PACKET_LENGTH + 1),
      <<128, 0, 0, 0>>, <<255, 255, 255, 255>> }

OddStreams ==
    { [packets |-> <<>>, bytes |-> l \o Zeros(n)] : l \in OddLengths, n \in {0, 1, 7, 8} }

\* RawJdwpClient::new has spawned the reader task; the peer's bytes are in
\* flight
RawInit ==
    /\ NoClient({<<8, 8, 8, 8, 8>>})
    /\ given \in TwoPackets \cup OddStreams
    /\ wire = given.bytes
    /\ peerPc = "frames"
    /\ readerPc = "run"
    /\ rawChan = <<>>
    /\ pumpPc = "recv"
    /\ src = <<>>
    /\ got = <<>>

\* everything the raw transport leaves alone
restVars ==
    << createVars, peerReport, inPre, peerSent, pumpItem, lockVars, callVars, sinkVars,
       next_id, one_shots, codec, eventChan, evVars, given >>

\* FramedRead::poll_next when decode wants more: read some of the bytes in
\* flight into the buffer
RawReaderFill ==
    /\ readerPc = "run"
    /\ wire # <<>>
    /\ RawDecode(src).st = "none"
    /\ \E k \in 1..Len(wire) :
          /\ src' = RawDecode(src).rest \o Take(wire, k)
          /\ wire' = Drop(wire, k)
    /\ UNCHANGED << peerPc, readerPc, rawChan, pumpPc, got, restVars >>

\* a reader task that polls the stream again after its last item
KeepsReading(sent) == "run"

\* the reader task after raw_stream.next() returned an error or None, and
\* after tx.send(..).unwrap(): the stream yields None after an error and
\* the loop ends; the unwrap panics when the receiver is gone
AfterLast(sent) == IF sent THEN "done" ELSE "panicked"

\* FramedRead::poll_next when decode yields, fails or panics, and the
\* reader task's tx.send(packet).unwrap()
RawReaderYield ==
    /\ readerPc = "run"
    /\ RawDecode(src).st # "none"
    /\ LET r == RawDecode(src) IN
       /\ src' = r.rest
       /\ got' = Append(got, [st |-> r.st, item |-> r.item,
                              used |-> Len(src) - Len(r.rest)])
       /\ IF r.st = "panic" \/ ~PumpRunning
          THEN readerPc' = "panicked" /\ UNCHANGED rawChan
          ELSE /\ rawChan' = Append(rawChan, r.item)
               /\ readerPc' = IF r.st = "err" THEN AfterLast(TRUE) ELSE "run"
    /\ UNCHANGED << peerPc, wire, pumpPc, given, restVars >>

\* a byte stream that never reports its end
NeverEnds == FALSE

\* the read of the inbound half returns 0 bytes
StreamEnded == wire = <<>> /\ peerPc = "closed"

\* FramedRead::poll_next at the end of the byte stream: decode_eof yields
\* None on an empty buffer and the error "bytes remaining on stream" on a
\* partial packet
RawReaderEof ==
    /\ readerPc = "run"
    /\ StreamEnded
    /\ RawDecode(src).st = "none"
    /\ IF src = <<>>
       THEN readerPc' = AfterLast(TRUE) /\ UNCHANGED rawChan
       ELSE /\ readerPc' = AfterLast(PumpRunning)
            /\ rawChan' = IF PumpRunning THEN Append(rawChan, ErrPacket) ELSE rawChan
    /\ UNCHANGED << peerPc, wire, pumpPc, src, got, restVars >>

RawReader == RawReaderFill \/ RawReaderYield \/ RawReaderEof

\* the peer closes the connection; bytes in flight still arrive
RawPeerClose ==
    /\ peerPc = "frames"
    /\ peerPc' = "closed"
    /\ UNCHANGED << wire, readerPc, rawChan, pumpPc, src, got, restVars >>

\* the task that holds the RawPacketStream ends: the receiver is dropped,
\* the reader task is detached and runs on
RawStreamDrop ==
    /\ pumpPc = "recv"
    /\ pumpPc' = JoinSetAbort(pumpPc)
    /\ UNCHANGED << peerPc, wire, readerPc, rawChan, src, got, restVars >>

RawNext == RawReader \/ RawPeerClose \/ RawStreamDrop

RawSpec == RawInit /\ [][RawNext]_vars

\* the reader task is a spawned task of the runtime: it is polled whenever
\* its stream has bytes, an end or a buffered packet for it
RawLive == RawSpec /\ WF_vars(RawReader)

\* C21: framing round trip.  The bytes RawCodec::encode produces for a
\* command or reply packet carry 11 plus the payload length in the length
\* field, and RawCodec::decode yields from them a packet of the same kind
\* (a reply exactly when bit 7 of the flags byte is set) with the same id,
\* the same 16-bit variable field and the same payload.
C21_FramingRoundTrip ==
    given.packets # <<>> =>
        LET p == given.packets[1] IN
        /\ U32(Take(given.bytes, 4)) = 11 + Len(p.data)
        /\ (p.kind = "reply") <=> IsReply(given.bytes[9])
        /\ got # <<>> =>
              /\ got[1].st = "some"
              /\ got[1].item.kind = p.kind
              /\ got[1].item.id = p.id
              /\ got[1].item.error_code = p.error_code
              /\ got[1].item.command_set = p.command_set
              /\ got[1].item.command = p.command
              /\ got[1].item.data = p.data

\* C21 witness: a reply with an error code and a payload came out of the
\* decoder as it went into the encoder
C21_ReplyDecoded ==
    /\ got # <<>>
    /\ got[1].st = "some"
    /\ got[1].item = new_reply(1, INVALID_OBJECT, <<0, 0, 0, 11>>)
    /\ given.packets[1] = got[1].item

\* C22: incremental framing.  Whatever the pieces in which the bytes of two
\* encoded packets reach the decoder, every packet it yields is the next of
\* the two, it takes exactly that packet's length in bytes out of the
\* buffer, it yields nothing else, and once both are out the buffer is
\* empty.
C22_IncrementalFraming ==
    given.packets # <<>> =>
        /\ Len(got) <= 2
        /\ \A i \in DOMAIN got :
              /\ got[i].st = "some"
              /\ got[i].item = given.packets[i]
              /\ got[i].used = HeaderLength(given.packets[i])
        /\ (Len(got) = 2 /\ wire = <<>>) => src = <<>>

\* C23: a length field above 2^22 or below 11 makes the framing decoder
\* return an error: it never panics and never yields a packet, and a length
\* above 2^22 is rejected as soon as its four bytes are in the buffer.
C23_BadLengthRejected ==
    given.packets = <<>> =>
        /\ \A i \in DOMAIN got : got[i].st = "err"
        /\ (Len(src) >= 4 /\ U32(Take(src, 4)) > MAX_PACKET_LENGTH)
               => RawDecode(src).st = "err"

\* C30: once the inbound byte stream is closed the detached reader task
\* ends, after the packets still buffered: it does not run forever, whether
\* or not the receiver of its channel is still there.
C30_ReaderTerminates == (peerPc = "closed") ~> (readerPc \in {"done", "panicked"})

\* C30 witness: the stream was closed, the receiver was dropped, and the
\* reader task has ended after it forwarded a packet
C30_ReaderEnded ==
    /\ peerPc = "closed"
    /\ pumpPc = "aborted"
    /\ rawChan # <<>>
    /\ readerPc \in {"done", "panicked"}

\* ------------------------------------------------- value codec: the units

\* the width encdec_id! takes from the table for a namespace: the object
\* width for the eleven object and reference-type namespaces, the method,
\* field and frame widths for MethodId, FieldId and FrameId
IdNamespaces == {"object", "method", "field", "frame"}

IdSizeOf(sizes, ns) ==
    CASE ns = "object" -> sizes.object_id_size
      [] ns = "method" -> sizes.method_id_size
      [] ns = "field" -> sizes.field_id_size
      [] OTHER -> sizes.frame_id_size

\* a table that gives one namespace the width w and the others another one
SizesWith(ns, w) ==
    LET o == (w % 8) + 1 IN
    IdSizesNew(IF ns = "object" THEN w ELSE o, IF ns = "method" THEN w ELSE o,
               IF ns = "field" THEN w ELSE o, IF ns = "frame" THEN w ELSE o)

\* 64-bit id values, as their eight big-endian bytes: 0, 101, 2^48 - 1,
\* 0x0102030405060708 and u64::MAX
IdValues ==
    { Zeros(8), Zeros(7) \o <<101>>, <<0, 0, 255, 255, 255, 255, 255, 255>>,
      <<1, 2, 3, 4, 5, 6, 7, 8>>, <<255, 255, 255, 255, 255, 255, 255, 255>> }

\* an id to encode and decode again under a table
IdUnits ==
    { [unit |-> "id", ty |-> ns, sizes |-> SizesWith(ns, w), value |-> v,
       bytes |-> <<>>, kind |-> 0, name |-> ""] :
        ns \in IdNamespaces, w \in 1..8, v \in IdValues }

\* the tables the decoders are exercised under
UnitSizes == { IdSizesDefault, IdSizesNew(4, 2, 3, 5) }

\* i32 length prefixes: negative, zero, within the bytes that follow, beyond
LengthPrefixes ==
    { PutInt(-1), PutInt(-2147483647 - 1), PutInt(0), PutInt(1), PutInt(2), PutInt(5),
      PutInt(2147483647) }

\* byte cursors for the String decoder: a prefix, then bytes that are UTF-8
\* or not; and a prefix cut short
StringInputs ==
    { l \o b : l \in LengthPrefixes, b \in { <<>>, <<97>>, <<97, 98>>, <<255, 97>> } }
    \cup { <<0, 0>> }

\* byte cursors for Vec<ObjectId>: a prefix, then zero to two whole ids
VecInputs(sizes) ==
    { l \o b : l \in LengthPrefixes,
               b \in { <<>>, Zeros(sizes.object_id_size),
                       Zeros(2 * sizes.object_id_size) } }

\* byte cursors for Value and Location: a tag byte, known or not, then
\* nothing, one byte or nineteen
TaggedInputs ==
    { <<t>> \o b : t \in TagValues \cup {0, 1, 2, 3}, b \in { <<>>, <<1>>, Zeros(19) } }
    \cup { <<>> }

DecodeUnits ==
    { [unit |-> "decode", ty |-> "string", sizes |-> s, value |-> <<>>,
       bytes |-> b, kind |-> 0, name |-> ""] : s \in {IdSizesDefault}, b \in StringInputs }
    \cup UNION { { [unit |-> "decode", ty |-> "vec", sizes |-> s, value |-> <<>>,
                     bytes |-> b, kind |-> 0, name |-> ""] : b \in VecInputs(s) } :
                  s \in UnitSizes }
    \cup { [unit |-> "decode", ty |-> ty, sizes |-> s, value |-> <<>>,
            bytes |-> b, kind |-> 0, name |-> ""] :
              ty \in {"value", "loc"}, s \in UnitSizes, b \in TaggedInputs }

\* the field types of each Event variant as the enum declares them
DeclaredFields(kind) ==
    IF kind = 8 THEN <<"int", "oid", "typetag", "oid", "string", "status">>
    ELSE EventFields(kind)

\* one sample of each field type on the wire
WireOf(ty, sizes) ==
    CASE ty = "int" -> PutInt(7)
      [] ty = "oid" -> SubSeq(<<1, 2, 3, 4, 5, 6, 7, 8>>, 9 - sizes.object_id_size, 8)
      [] ty = "fid" -> SubSeq(<<11, 12, 13, 14, 15, 16, 17, 18>>, 9 - sizes.field_id_size, 8)
      [] ty = "loc" ->
            <<1>> \o SubSeq(<<21, 22, 23, 24, 25, 26, 27, 28>>, 9 - sizes.object_id_size, 8)
                \o SubSeq(<<31, 32, 33, 34, 35, 36, 37, 38>>, 9 - sizes.method_id_size, 8)
                \o <<0, 0, 0, 0, 0, 0, 0, 9>>
      [] ty = "tagged" ->
            <<76>> \o SubSeq(<<41, 42, 43, 44, 45, 46, 47, 48>>, 9 - sizes.object_id_size, 8)
      [] ty = "typetag" -> <<2>>
      [] ty = "string" -> PutInt(2) \o <<97, 98>>
      [] ty = "status" -> <<0, 0, 0, 7>>
      [] ty = "value" -> <<73>> \o PutInt(5)
      [] ty = "long" -> <<0, 0, 0, 0, 0, 0, 1, 0>>
      [] OTHER -> <<1>>

RECURSIVE WireOfAll(_, _)
WireOfAll(fields, sizes) ==
    IF Len(fields) = 0 THEN <<>>
    ELSE WireOf(Head(fields), sizes) \o WireOfAll(Tail(fields), sizes)

\* an event on the wire: the EventKind byte, then the fields of that kind
EventUnits ==
    { [unit |-> "event", ty |-> "event", sizes |-> s, value |-> <<>>,
       bytes |-> <<k>> \o WireOfAll(DeclaredFields(k), s), kind |-> k, name |-> ""] :
        s \in UnitSizes, k \in EventKindValues \cup {0, 200} }

\* impl JdwpDecodable for the types the units name
UnitDecoder(ty, data, sizes) ==
    CASE ty \in IdNamespaces -> DecodeId(data, IdSizeOf(sizes, ty))
      [] ty = "vec" -> DecodeVec(data, sizes, "oid")
      [] OTHER -> DecodeItem(data, sizes, ty)

\* tagged_type!: the variants of each enumeration and their discriminants
TagTable(family) ==
    CASE family = "TypeTag" -> { <<"Class", 1>>, <<"Interface", 2>>, <<"Array", 3>> }
      [] family = "Tag" ->
            { <<"Array", 91>>, <<"Byte", 66>>, <<"Char", 67>>, <<"Object", 76>>,
              <<"Float", 70>>, <<"Double", 68>>, <<"Int", 73>>, <<"Long", 74>>,
              <<"Short", 83>>, <<"Void", 86>>, <<"Boolean", 90>>, <<"String", 115>>,
              <<"Thread", 116>>, <<"ThreadGroup", 103>>, <<"ClassLoader", 108>>,
              <<"ClassObject", 99>> }
      [] family = "SuspendPolicy" -> { <<"None", 0>>, <<"EventThread", 1>>, <<"All", 2>> }
      [] family = "EventKind" ->
            { <<"SingleStep", 1>>, <<"Breakpoint", 2>>, <<"FramePop", 3>>,
              <<"Exception", 4>>, <<"UserDefined", 5>>, <<"ThreadStart", 6>>,
              <<"ThreadDeath", 7>>, <<"ClassPrepare", 8>>, <<"ClassUnload", 9>>,
              <<"ClassLoad", 10>>, <<"FieldAccess", 20>>, <<"FieldModification", 21>>,
              <<"ExceptionCatch", 30>>, <<"MethodEntry", 40>>, <<"MethodExit", 41>>,
              <<"MethodExitWithReturnValue", 42>>, <<"MonitorContendedEnter", 43>>,
              <<"MonitorContendedEntered", 44>>, <<"MonitorWait", 45>>,
              <<"MonitorWaited", 46>>, <<"VmStart", 90>>, <<"VmDeath", 99>>,
              <<"VmDisconnected", 100>> }
      [] OTHER ->
            { <<"None", 0>>, <<"InvalidThread", 10>>, <<"InvalidThreadGroup", 11>>,
              <<"InvalidPriority", 12>>, <<"ThreadNotSuspended", 13>>,
              <<"ThreadSuspended", 14>>, <<"ThreadNotAlive", 15>>,
              <<"InvalidObject", 20>>, <<"InvalidClass", 21>>,
              <<"ClassNotPrepared", 22>>, <<"InvalidMethodId", 23>>,
              <<"InvalidLocation", 24>>, <<"InvalidFieldId", 25>>,
              <<"InvalidFrameId", 30>>, <<"NoMoreFrames", 31>>, <<"OpaqueFrame", 32>>,
              <<"NotCurrentFrame", 33>>, <<"TypeMismatch", 34>>, <<"InvalidSlot", 35>>,
              <<"Duplicate", 40>>, <<"NotFound", 41>>, <<"InvalidMonitor", 50>>,
              <<"NotMonitorOwner", 51>>, <<"Interrupt", 52>>,
              <<"InvalidClassFormat", 60>>, <<"CircularClassDefinition", 61>>,
              <<"FailsVerification", 62>>, <<"AddMethodNotImplemented", 63>>,
              <<"SchemaChangeNotImplemented", 64>>, <<"InvalidTypestate", 65>>,
              <<"HierarchyChangeNotImplemented", 66>>,
              <<"DeleteMethodNotImplemented", 67>>, <<"UnsupportedVersion", 68>>,
              <<"NamesDontMatch", 69>>, <<"ClassModifiersChangeNotImplemented", 70>>,
              <<"MethodModifiersChangeNotImplemented", 71>>, <<"NotImplemented", 99>>,
              <<"NullPointer", 100>>, <<"AbsentInformation", 101>>,
              <<"InvalidEventType", 102>>, <<"IllegalArgument", 103>>,
              <<"OutOfMemory", 110>>, <<"AccessDenied", 111>>, <<"VmDead", 112>>,
              <<"Internal", 113>>, <<"UnattachedThread", 115>>, <<"InvalidTag", 500>>,
              <<"AlreadyInvoking", 502>>, <<"InvalidIndex", 503>>,
              <<"InvalidLength", 504>>, <<"InvalidString", 506>>,
              <<"InvalidClassLoader", 507>>, <<"InvalidArray", 508>>,
              <<"TransportLoad", 509>>, <<"TransportInit", 510>>,
              <<"NativeMethod", 511>> }

TagFamilies == {"TypeTag", "Tag", "SuspendPolicy", "EventKind", "ErrorConstant"}

\* the numbers of the representation type: u16 for ErrorConstant, u8 for
\* the others
ReprMax(family) == IF family = "ErrorConstant" THEN 65535 ELSE 255

\* impl From<$name> for $repr_ty: var as $repr_ty
IntoRepr(family, variant) ==
    (CHOOSE p \in TagTable(family) : p[1] = variant)[2]

\* a conversion whose last arm yields a variant
TryFromReprLossy(family, value) ==
    IF \E p \in TagTable(family) : p[2] = value
    THEN Ok((CHOOSE p \in TagTable(family) : p[2] = value)[1], <<>>)
    ELSE Ok((CHOOSE p \in TagTable(family) :
                \A q \in TagTable(family) : p[2] <= q[2])[1], <<>>)

\* impl TryFrom<$repr_ty> for $name: one arm per variant, then
\* unknown => Err(UnknownTagError(unknown))
TryFromRepr(family, value) ==
    IF \E p \in TagTable(family) : p[2] = value
    THEN Ok((CHOOSE p \in TagTable(family) : p[2] = value)[1], <<>>)
    ELSE Err(<<"UnknownTagError", value>>)

\* a variant to convert to its number and back
TagUnits ==
    UNION { { [unit |-> "tag", ty |-> f, sizes |-> IdSizesDefault, value |-> <<>>,
               bytes |-> <<>>, kind |-> 0, name |-> p[1]] : p \in TagTable(f) } :
            f \in TagFamilies }

\* the numbers tried against each enumeration: every u8; for the u16 one
\* the range of the constants, the steps around 255 and 500, and u16::MAX
ReprInputs(family) ==
    IF family = "ErrorConstant"
    THEN (0..120) \cup (254..258) \cup (498..513) \cup {65535}
    ELSE 0..255

ReprUnits ==
    UNION { { [unit |-> "repr", ty |-> f, sizes |-> IdSizesDefault, value |-> <<>>,
               bytes |-> <<>>, kind |-> n, name |-> ""] : n \in ReprInputs(f) } :
            f \in TagFamilies }

\* type_to_tagged!: the Tag each object namespace converts under
TagOf(ns) ==
    CASE ns = "ObjectId" -> "Object"
      [] ns = "ThreadId" -> "Thread"
      [] ns = "ThreadGroupId" -> "ThreadGroup"
      [] ns = "StringId" -> "String"
      [] ns = "ClassLoaderId" -> "ClassLoader"
      [] ns = "ClassObjectId" -> "ClassObject"
      [] OTHER -> "Array"

ObjectNamespaces ==
    {"ObjectId", "ThreadId", "ThreadGroupId", "StringId", "ClassLoaderId",
     "ClassObjectId", "ArrayId"}

\* impl From<$ty> for TaggedObjectId
ToTagged(ns, id) == << TagOf(ns), id >>

\* a conversion that does not look at the tag
FromTaggedUnchecked(ns, tagged) == Ok(tagged[2], <<>>)

\* impl TryFrom<TaggedObjectId> for $ty
FromTagged(ns, tagged) ==
    IF tagged[1] = TagOf(ns) THEN Ok(tagged[2], <<>>)
    ELSE Err(<<"TagTypeMismatchError", TagOf(ns), tagged[1]>>)

\* an id of one namespace to convert to a TaggedObjectId and then to a
\* namespace, the same or another
TaggedUnits ==
    { [unit |-> "tagged", ty |-> ns, sizes |-> IdSizesDefault, value |-> v,
       bytes |-> <<>>, kind |-> 0, name |-> to] :
        ns \in ObjectNamespaces, to \in ObjectNamespaces, v \in IdValues }

\* a JdwpEncoder or JdwpDecoder is created for one input under one table; a
\* conversion is given its argument
UnitInit ==
    /\ ClientInit({<<8, 8, 8, 8, 8>>})
    /\ given \in IdUnits \cup DecodeUnits \cup EventUnits \cup TagUnits
                 \cup ReprUnits \cup TaggedUnits
    /\ src = given.bytes
    /\ got = <<>>

connVars ==
    << restVars, peerPc, wire, readerVars, pumpPc >>

\* encoder.put(&id); the decoder is then built over encoder.data.freeze()
UnitEncode ==
    /\ given.unit = "id"
    /\ got = <<>>
    /\ LET r == EncodeId(given.value, IdSizeOf(given.sizes, given.ty)) IN
       /\ got' = <<[op |-> "encode", res |-> r]>>
       /\ src' = IF r.st = "ok" THEN r.val ELSE src
    /\ UNCHANGED connVars

\* decoder.get::<T>()
UnitDecode ==
    /\ \/ given.unit = "id" /\ Len(got) = 1 /\ got[1].res.st = "ok"
       \/ given.unit \in {"decode", "event"} /\ got = <<>>
    /\ LET r == UnitDecoder(given.ty, src, given.sizes) IN
       /\ got' = Append(got, [op |-> "decode", res |-> r])
       /\ src' = IF r.st = "ok" THEN r.rest ELSE src
    /\ UNCHANGED connVars

\* $repr_ty::from(variant)
UnitInto ==
    /\ given.unit = "tag"
    /\ got = <<>>
    /\ got' = <<[op |-> "into", res |-> Ok(IntoRepr(given.ty, given.name), <<>>)]>>
    /\ UNCHANGED << src, connVars >>

\* $name::try_from(value), of the number just produced or of a number given
UnitTryFrom ==
    /\ \/ given.unit = "tag" /\ Len(got) = 1
       \/ given.unit = "repr" /\ got = <<>>
    /\ LET value == IF given.unit = "tag" THEN got[1].res.val ELSE given.kind IN
       got' = Append(got, [op |-> "try_from", res |-> TryFromRepr(given.ty, value)])
    /\ UNCHANGED << src, connVars >>

\* TaggedObjectId::from(id)
UnitTag ==
    /\ given.unit = "tagged"
    /\ got = <<>>
    /\ got' = <<[op |-> "from", res |-> Ok(ToTagged(given.ty, given.value), <<>>)]>>
    /\ UNCHANGED << src, connVars >>

\* <$ty>::try_from(tagged)
UnitUntag ==
    /\ given.unit = "tagged"
    /\ Len(got) = 1
    /\ got' = Append(got, [op |-> "try_from",
                           res |-> FromTagged(given.name, got[1].res.val)])
    /\ UNCHANGED << src, connVars >>

UnitNext == UnitEncode \/ UnitDecode \/ UnitInto \/ UnitTryFrom \/ UnitTag \/ UnitUntag

UnitSpec == UnitInit /\ [][UnitNext]_vars

\* C24: an id of a namespace whose configured width is w in 1..8 is encoded
\* as exactly the w low-order bytes of its 64-bit value, big-endian; decoding
\* reads exactly w bytes and zero-extends them, so the round trip returns the
\* value iff it is below 2^(8w); u64::MAX at width 6 comes back as 2^48 - 1
C24_IdWidth ==
    given.unit = "id" =>
        LET w == IdSizeOf(given.sizes, given.ty)
            v == given.value IN
        /\ w \in 1..8
        /\ Len(got) >= 1 =>
              /\ got[1].res.st = "ok"
              /\ got[1].res.val = SubSeq(v, 9 - w, 8)
              /\ Len(got[1].res.val) = w
        /\ Len(got) >= 2 =>
              /\ got[2].res.st = "ok"
              /\ got[2].res.rest = <<>>
              /\ got[2].res.val = [i \in 1..8 |-> IF i <= 8 - w THEN 0 ELSE v[i]]
              /\ (got[2].res.val = v) <=> (\A i \in 1..(8 - w) : v[i] = 0)
              /\ (w = 6 /\ v = <<255, 255, 255, 255, 255, 255, 255, 255>>) =>
                    got[2].res.val = <<0, 0, 255, 255, 255, 255, 255, 255>>

\* u64::MAX went through a six-byte namespace and came back truncated
C24_Truncated ==
    /\ given.unit = "id"
    /\ IdSizeOf(given.sizes, given.ty) = 6
    /\ given.value = <<255, 255, 255, 255, 255, 255, 255, 255>>
    /\ Len(got) = 2
    /\ got[2].res.st = "ok"
    /\ got[2].res.val # given.value

\* the value-decode errors the decoders may return
DecodeErrors ==
    {"NotEnoughBytes", "UnexpectedNegativeInt", "IllegalByteTag", "Utf8DecodeError"}

\* the i32 length prefix of a byte cursor exceeds the bytes behind it
PrefixBeyond(bytes) ==
    /\ Len(bytes) >= 4
    /\ I32(Take(bytes, 4)) > Len(bytes) - 4

\* C25: on any byte sequence every typed decoder returns a value or one of
\* NotEnoughBytes, UnexpectedNegativeInt, IllegalByteTag, Utf8DecodeError and
\* never panics; a Vec or String whose length prefix exceeds the bytes that
\* remain yields NotEnoughBytes
C25_DecodersTotal ==
    \A i \in 1..Len(got) :
        got[i].op = "decode" =>
            /\ \/ got[i].res.st = "ok"
               \/ got[i].res.st = "err" /\ got[i].res.val \in DecodeErrors
            /\ (given.ty \in {"string", "vec"} /\ PrefixBeyond(given.bytes)) =>
                  got[i].res = Err("NotEnoughBytes")

\* C26: decoding a String or a Vec whose length prefix is negative returns
\* UnexpectedNegativeInt
C26_NegativeLength ==
    \A i \in 1..Len(got) :
        (/\ got[i].op = "decode"
         /\ given.ty \in {"string", "vec"}
         /\ Len(given.bytes) >= 4
         /\ I32(Take(given.bytes, 4)) < 0) =>
            got[i].res = Err("UnexpectedNegativeInt")

\* the decoded form of each sample WireOf puts on the wire
ValueOf(ty, sizes) ==
    CASE ty = "int" -> 7
      [] ty = "oid" -> Zeros(8 - sizes.object_id_size) \o WireOf("oid", sizes)
      [] ty = "fid" -> Zeros(8 - sizes.field_id_size) \o WireOf("fid", sizes)
      [] ty = "loc" ->
            << 1,
               Zeros(8 - sizes.object_id_size)
                   \o SubSeq(<<21, 22, 23, 24, 25, 26, 27, 28>>, 9 - sizes.object_id_size, 8),
               Zeros(8 - sizes.method_id_size)
                   \o SubSeq(<<31, 32, 33, 34, 35, 36, 37, 38>>, 9 - sizes.method_id_size, 8),
               <<0, 0, 0, 0, 0, 0, 0, 9>> >>
      [] ty = "tagged" ->
            << 76, Zeros(8 - sizes.object_id_size)
                       \o SubSeq(<<41, 42, 43, 44, 45, 46, 47, 48>>, 9 - sizes.object_id_size, 8) >>
      [] ty = "typetag" -> 2
      [] ty = "string" -> <<97, 98>>
      [] ty = "status" -> <<0, 0, 0, 7>>
      [] ty = "value" -> <<73, 5>>
      [] ty = "long" -> <<0, 0, 0, 0, 0, 0, 1, 0>>
      [] OTHER -> 1

\* C29: for every EventKind byte sent on the wire the event decoder yields
\* the variant of that same kind, with the payload fields of the kind read in
\* their listed order and nothing of the event left unread; in particular 44
\* gives MonitorContendedEntered and 43 MonitorContendedEnter
C29_EventVariants ==
    (/\ given.unit = "event"
     /\ given.kind \in EventKindValues \ {100}
     /\ Len(got) = 1) =>
        /\ got[1].res.st = "ok"
        /\ got[1].res.val.kind = given.kind
        /\ got[1].res.val.fields =
              [i \in 1..Len(DeclaredFields(given.kind)) |->
                  ValueOf(DeclaredFields(given.kind)[i], given.sizes)]
        /\ got[1].res.rest = <<>>

\* the numbers the tag families are specified with; of the error constants
\* only None = 0 is given a number
Listed(family) ==
    CASE family = "TypeTag" -> { <<"Class", 1>>, <<"Interface", 2>>, <<"Array", 3>> }
      [] family = "Tag" ->
            { <<"Array", 91>>, <<"Byte", 66>>, <<"Char", 67>>, <<"Object", 76>>,
              <<"Float", 70>>, <<"Double", 68>>, <<"Int", 73>>, <<"Long", 74>>,
              <<"Short", 83>>, <<"Void", 86>>, <<"Boolean", 90>>, <<"String", 115>>,
              <<"Thread", 116>>, <<"ThreadGroup", 103>>, <<"ClassLoader", 108>>,
              <<"ClassObject", 99>> }
      [] family = "SuspendPolicy" -> { <<"None", 0>>, <<"EventThread", 1>>, <<"All", 2>> }
      [] family = "EventKind" ->
            { <<"SingleStep", 1>>, <<"Breakpoint", 2>>, <<"FramePop", 3>>,
              <<"Exception", 4>>, <<"UserDefined", 5>>, <<"ThreadStart", 6>>,
              <<"ThreadDeath", 7>>, <<"ClassPrepare", 8>>, <<"ClassUnload", 9>>,
              <<"ClassLoad", 10>>, <<"FieldAccess", 20>>, <<"FieldModification", 21>>,
              <<"ExceptionCatch", 30>>, <<"MethodEntry", 40>>, <<"MethodExit", 41>>,
              <<"MethodExitWithReturnValue", 42>>, <<"MonitorContendedEnter", 43>>,
              <<"MonitorContendedEntered", 44>>, <<"MonitorWait", 45>>,
              <<"MonitorWaited", 46>>, <<"VmStart", 90>>, <<"VmDeath", 99>>,
              <<"VmDisconnected", 100>> }
      [] OTHER -> { <<"None", 0>> }

\* C27: for TypeTag, Tag, SuspendPolicy, EventKind (u8) and ErrorConstant
\* (u16), a variant converted to its number and back is the same variant, the
\* number is the listed one, and a number that is no constant of the
\* enumeration fails with UnknownTagError and gives no variant
C27_TagRoundTrip ==
    /\ (given.unit = "tag" /\ Len(got) >= 1) =>
          /\ got[1].res.val \in 0..ReprMax(given.ty)
          /\ \A p \in Listed(given.ty) :
                p[1] = given.name => got[1].res.val = p[2]
          /\ given.ty # "ErrorConstant" =>
                \E p \in Listed(given.ty) : p[1] = given.name
    /\ (given.unit = "tag" /\ Len(got) = 2) => got[2].res = Ok(given.name, <<>>)
    /\ (given.unit = "repr" /\ Len(got) = 1) =>
          /\ got[1].res.st = "ok" =>
                /\ <<got[1].res.val, given.kind>> \in TagTable(given.ty)
                /\ given.ty # "ErrorConstant" =>
                      <<got[1].res.val, given.kind>> \in Listed(given.ty)
          /\ got[1].res.st # "ok" =>
                /\ got[1].res = Err(<<"UnknownTagError", given.kind>>)
                /\ \A p \in TagTable(given.ty) : p[2] # given.kind

\* an unknown byte was refused and MonitorContendedEntered went to 44 and back
C27_UnknownRefused ==
    \/ /\ given.unit = "repr"
       /\ given.ty = "Tag"
       /\ given.kind = 92
       /\ Len(got) = 1
       /\ got[1].res.st = "err"
    \/ /\ given.unit = "tag"
       /\ given.name = "MonitorContendedEntered"
       /\ Len(got) = 2
       /\ got[1].res.val = 44
       /\ got[2].res.val = "MonitorContendedEntered"

\* C28: an id of one of the seven object namespaces converted to a
\* TaggedObjectId and back to the same namespace comes back with the same
\* 64-bit value; converted to any other namespace it fails with a tag
\* mismatch
C28_TaggedRoundTrip ==
    /\ (given.unit = "tagged" /\ Len(got) >= 1) =>
          /\ got[1].res.st = "ok"
          /\ got[1].res.val[2] = given.value
    /\ (given.unit = "tagged" /\ Len(got) = 2) =>
          IF given.name = given.ty
          THEN got[2].res = Ok(given.value, <<>>)
          ELSE /\ got[2].res.st = "err"
               /\ got[2].res.val[1] = "TagTypeMismatchError"

\* ArrayId 101 was tagged and then refused as a ThreadId
C28_ArrayNotThread ==
    /\ given.unit = "tagged"
    /\ given.ty = "ArrayId"
    /\ given.name = "ThreadId"
    /\ given.value = Zeros(7) \o <<101>>
    /\ Len(got) = 2
    /\ got[2].res.st = "err"

\* ------------------------------------------- the pending-reply table

\* some part of caller c's command packet has been handed to the sink
Handed(c) ==
    /\ cid[c] # 0
    /\ \E j \in 1..Len(outWire) : outWire[j].k = "cmd" /\ outWire[j].id = cid[c]

\* the table holds caller c's sender under the id of its command
Entry(c) == cid[c] \in DOMAIN one_shots /\ one_shots[cid[c]] = c

\* the connection was torn down: the client was dropped, or the pump took
\* the framing error from the inbound stream
TornDown ==
    \/ client = "dropped"
    \/ /\ peerPc = "garbled"
       /\ wire = <<>>
       /\ readerPc = "done"
       /\ \A j \in 1..Len(rawChan) : rawChan[j].kind # "err"

\* C31: send() inserts the single-shot channel for its id before any part of
\* the command packet with that id is handed to the sink, so an entry exists
\* whenever a reply for the id can arrive; an entry leaves the table only
\* when the pump takes the reply with that id or at teardown
C31_InsertBeforeTransmit ==
    /\ [](\A c \in Callers :
            (Handed(c) /\ ~Entry(c)) => (rx[c] # <<>> \/ TornDown))
    /\ [][/\ \A c \in Callers :
                (pc[c] = "insert" /\ pc'[c] # "insert") =>
                    (Entry(c)' /\ ~Handed(c)')
          /\ \A c \in Callers :
                (~Handed(c) /\ Handed(c)') => pc[c] = "lock_sink"
          /\ \A i \in DOMAIN one_shots :
                i \notin DOMAIN one_shots' =>
                    \/ /\ pumpPc = "dispatch"
                       /\ pumpItem.kind = "reply"
                       /\ pumpItem.id = i
                       /\ DOMAIN one_shots' = DOMAIN one_shots \ {i}
                    \/ /\ pumpPc = "recv"
                       /\ pumpPc' = "panicked"
                       /\ one_shots' = EmptyMap
                    \/ client' = "dropped"]_vars

\* a user's command went out whole with its entry in the table, and the
\* pump has since taken its reply and the entry
C31_ReplyTookEntry ==
    \E c \in Users :
        /\ \E j \in 1..Len(outWire) :
              outWire[j].k = "cmd" /\ outWire[j].id = cid[c] /\ outWire[j].part = 2
        /\ rx[c] # <<>>
        /\ cid[c] \notin DOMAIN one_shots
        /\ client = "alive"

\* the n-th int of the reply create() received for its IdSizes command
ReplyInt(n) == I32(SubSeq(rx[0][1].data, 4 * n - 3, 4 * n))

\* C32: the IdSizes reply is decoded as five ints in the order fieldIdSize,
\* methodIdSize, objectIdSize, referenceTypeIdSize, frameIdSize; after the
\* negotiation the object, method, field and frame widths of the codec table
\* are the 3rd, 2nd, 1st and 5th int of the reply
C32_ReplyFieldOrder ==
    /\ (pc[0] = "done" /\ result[0].st = "ok") =>
          /\ Len(rx[0][1].data) >= 20
          /\ result[0].val.field_id_size = ReplyInt(1)
          /\ result[0].val.method_id_size = ReplyInt(2)
          /\ result[0].val.object_id_size = ReplyInt(3)
          /\ result[0].val.refernce_type_id_size = ReplyInt(4)
          /\ result[0].val.frame_id_size = ReplyInt(5)
    /\ createPc = "returned" =>
          /\ codec.object_id_size = ReplyInt(3)
          /\ codec.method_id_size = ReplyInt(2)
          /\ codec.field_id_size = ReplyInt(1)
          /\ codec.frame_id_size = ReplyInt(5)

\* create() returned after a reply whose five ints all differ
C32_FiveDistinctWidths ==
    /\ createPc = "returned"
    /\ rx[0][1].data = IdSizesPayload(<<2, 3, 5, 6, 7>>)
    /\ codec = IdSizesNew(5, 3, 2, 7)

\* the packets the framing decoder has produced, in the order of the bytes
FramedSoFar == SelectSeq(got, LAMBDA g : g.st = "some")

\* C33: when the framing decoder fails, the reader task forwards the error
\* as the last item of the packet stream and exits: nothing is forwarded
\* after the error, and every packet framed before it was forwarded before
\* it, in wire order
C33_ErrorIsTerminal ==
    /\ \A j \in 1..Len(rawChan) :
          rawChan[j].kind = "err" => (j = Len(rawChan) /\ readerPc = "done")
    /\ \A j \in 1..Len(rawChan) :
          rawChan[j].kind # "err" =>
              (j <= Len(FramedSoFar) /\ rawChan[j] = FramedSoFar[j].item)
    /\ \A i \in 1..Len(got) :
          got[i].st = "err" =>
              /\ i = Len(got)
              /\ \/ /\ readerPc = "done"
                    /\ Len(rawChan) = Len(FramedSoFar) + 1
                    /\ rawChan[Len(rawChan)].kind = "err"
                 \/ readerPc = "panicked" /\ ~PumpRunning

\* a packet was forwarded, then the decoder failed and its error was
\* forwarded last
C33_PacketThenError ==
    /\ Len(rawChan) = 2
    /\ rawChan[1].kind # "err"
    /\ rawChan[2].kind = "err"
    /\ Len(got) = 2
    /\ got[2].st = "err"
    /\ readerPc = "done"

\* C34: the codec's ID-size table is written exactly once over the lifetime
\* of a connection, by create() after the IdSizes reply; send(), dispose()
\* and the receive pump leave it unchanged
C34_TableWrittenOnce ==
    /\ [](createPc # "returned" => codec = IdSizesDefault)
    /\ [][codec' # codec =>
             /\ createPc = "codec_write"
             /\ createPc' = "returned"
             /\ pc[0] = "done"
             /\ result[0].st = "ok"
             /\ codec = IdSizesDefault]_vars
    /\ [][createPc = "returned" => codec' = codec]_vars

\* the table was written by create(), and a user's send() and a dispose()
\* have since run to their end
C34_WrittenThenUsed ==
    /\ createPc = "returned"
    /\ codec # IdSizesDefault
    /\ client = "dropped"
    /\ \E c \in Users : pc[c] = "done" /\ ccmd[c] = "Dispose" /\ result[c].st = "ok"
    /\ \E c \in Users : pc[c] = "done" /\ ccmd[c] = "AllThreads" /\ result[c].st = "ok"

\* C35: after the receive pump has exited the event dispatcher ends only
\* when the event queue is empty and every composite that was posted to it
\* has been dispatched to the registered handlers
C35_DrainsBeforeExit ==
    [][(dispPc # "done" /\ dispPc' = "done") =>
          /\ EventSenderDropped
          /\ eventChan = <<>>
          /\ event_handlers' # <<>> => buffered' = <<>>]_vars

\* ------------------------------------------------- a send() is cancelled

\* The future of send() is dropped while it awaits rx: the receiver of its
\* single-shot channel is dropped with it, the table entry stays.  The
\* future of dispose() owns the client.
SendCancel(c) ==
    /\ c \in Users
    /\ pc[c] = "await"
    /\ pc' = [pc EXCEPT ![c] = "cancelled"]
    /\ IF ccmd[c] = "Dispose" THEN ClientDrop ELSE ClientKept
    /\ UNCHANGED << cid, ccmd, rx, result, encSizes, decSizes, afterClose, afterFail >>
    /\ UNCHANGED << createPc, createErr, codecWriter, sinkBroken, sinkOwner, acquired >>
    /\ UNCHANGED << event_handlers, onPc, buffered, handled, flushedWith >>
    /\ UNCHANGED << peerVars, readerVars, next_id, codec, eventChan >>

CancelNext == PvNext \/ \E c \in Users : SendCancel(c)

\* the connection in service, with callers that may give up their send()
CancelSpec == EvInit /\ [][CancelNext]_vars

\* C36: when a send() was cancelled while it awaited its reply and the reply
\* for its id arrives later, the pump removes the stale entry, discards the
\* reply and goes back to its loop, so that later replies and events are
\* still delivered
C36_CancelledReplyDiscarded ==
    [][(/\ pumpPc = "dispatch" /\ pumpPc' # "dispatch"
        /\ pumpItem.kind = "reply"
        /\ pumpItem.id \in DOMAIN one_shots
        /\ pc[one_shots[pumpItem.id]] = "cancelled"
        /\ client' = client)
          => /\ pumpItem.id \notin DOMAIN one_shots'
             /\ rx' = rx
             /\ pumpPc' = "recv"]_vars

\* ------------------------------------- events before the negotiation

\* a composite with policy None carrying one VmDeath, an event without ids
VmDeathPayload == <<0>> \o PutInt(1) \o <<99>> \o PutInt(5)

\* what a virtual machine sends once the handshake is done: its start and
\* death events unasked, and the reply to the IdSizes command
EarlyFrames(r) ==
    { Frame(1, FLAG_REPLY, 0, IdSizesPayload(r)),
      Frame(0, FLAG_COMMAND, 64 * 256 + 100, VmStartPayload(r)),
      Frame(0, FLAG_COMMAND, 64 * 256 + 100, VmDeathPayload) }

EarlyPeerSend ==
    /\ peerPc = "frames"
    /\ wire = <<>>
    /\ peerSent < MaxPeerPackets
    /\ \E f \in EarlyFrames(peerReport) : wire' = <<f>>
    /\ peerSent' = peerSent + 1
    /\ UNCHANGED << peerPc, peerReport, inPre, unitVars >>
    /\ UNCHANGED << createVars, readerVars, pumpVars, lockVars, callVars, sinkVars,
                    next_id, one_shots, codec, eventChan, evVars >>

EarlyNext == NegNext \/ EarlyPeerSend

\* create() against a peer that sends events from the start
EarlySpec == Init /\ [][EarlyNext]_vars

\* C37: no composite is decoded with the default 8-byte table when the
\* peer's widths differ: the pump decodes a composite, and a composite
\* reaches the event queue, only after the negotiation has replaced the
\* codec table
C37_EventsAfterNegotiation ==
    /\ [][(/\ pumpPc = "dispatch" /\ pumpPc' # "dispatch"
           /\ pumpItem.kind = "command"
           /\ pumpItem.command_set = 64 /\ pumpItem.command = 100
           /\ PeerSizes # IdSizesDefault)
             => (createPc = "returned" /\ codec = PeerSizes)]_vars
    /\ [][Len(eventChan') > Len(eventChan)
             => (createPc = "returned" /\ codec = PeerSizes)]_vars

\* ------------------------------------------------ the locks of a connection

\* Number of composites the peer sends while the locks are watched.
MaxLockEvents == 1

\* a send() that keeps the guard of the pending-reply table until its reply
\* has arrived
TableHeldUntilReply ==
    \A c \in Callers : pc[c] \notin {"inserting", "lock_sink", "writing", "await"}

\* one_shots.write().await: the guard is granted when no other task holds
\* it.  The receive pump takes and drops it inside one statement with no
\* await in between (client.rs 130, 150-152), so only a send() is seen
\* holding it.
TableFree == \A c \in Callers : pc[c] # "inserting"

\* send(): one_shots.write().await
TableAcquire(c) ==
    /\ pc[c] = "insert"
    /\ TableFree
    /\ pc' = [pc EXCEPT ![c] = "inserting"]
    /\ UNCHANGED << cid, ccmd, rx, result, encSizes, decSizes, afterClose, afterFail >>
    /\ UNCHANGED << createVars, peerVars, readerVars, pumpVars, lockVars, sinkVars,
                    next_id, one_shots, codec, eventChan, evVars >>

\* send(): .insert(id, tx) under the guard, which is dropped at the end of
\* the statement
TableInsert(c) ==
    /\ pc[c] = "inserting"
    /\ one_shots' = InsertEntry(one_shots, cid[c], c)
    /\ pc' = [pc EXCEPT ![c] = "lock_sink"]
    /\ UNCHANGED << cid, ccmd, rx, result, encSizes, decSizes, afterClose, afterFail >>
    /\ UNCHANGED << createVars, peerVars, readerVars, pumpVars, lockVars, sinkVars,
                    next_id, codec, eventChan, evVars >>

\* the receive pump's match; its reply arm waits for the table's guard
TablePumpDispatch ==
    /\ pumpPc = "dispatch"
    /\ pumpItem.kind = "reply" => TableFree
    /\ PumpDispatch

\* The peer answers a command it has received and not answered yet: the
\* IdSizes command with its widths, any other with a list of one thread.
LockPeerReply ==
    /\ peerPc = "frames"
    /\ wire = <<>>
    /\ \E i \in (Received \cap DOMAIN one_shots) \ RepliesInFlight :
          wire' = << Frame(i, FLAG_REPLY, 0,
                           IF i = 1 THEN IdSizesPayload(peerReport)
                           ELSE ThreadsPayload(peerReport)) >>
    /\ UNCHANGED << peerPc, peerReport, inPre, peerSent, unitVars >>
    /\ UNCHANGED << createVars, readerVars, pumpVars, lockVars, callVars, sinkVars,
                    next_id, one_shots, codec, eventChan, evVars >>

\* The peer sends a composite of one VmStart, at any time after its preamble.
LockPeerEvent ==
    /\ peerPc = "frames"
    /\ wire = <<>>
    /\ peerSent < MaxLockEvents
    /\ wire' = << Frame(0, FLAG_COMMAND, 64 * 256 + 100,
                        CompositePayload(2, peerReport)) >>
    /\ peerSent' = peerSent + 1
    /\ UNCHANGED << peerPc, peerReport, inPre, unitVars >>
    /\ UNCHANGED << createVars, readerVars, pumpVars, lockVars, callVars, sinkVars,
                    next_id, one_shots, codec, eventChan, evVars >>

\* send() with the guard of the pending-reply table as a step of its own
LockedSend(c) ==
    \/ SendEncode(c) \/ TableAcquire(c) \/ TableInsert(c)
    \/ SinkLock(c) \/ SinkWrite(c) \/ RecvReply(c)

\* the steps of send() that follow its first one
SendOn(c) ==
    \/ TableAcquire(c) \/ TableInsert(c) \/ SinkLock(c) \/ SinkWrite(c) \/ RecvReply(c)

LockInit == InitWith({<<4, 4, 4, 4, 4>>})

LockNext ==
    \/ Create \/ PeerPreamble \/ LockPeerReply \/ LockPeerEvent \/ ReaderForward
    \/ PumpRecv \/ TablePumpDispatch
    \/ (\E c \in Callers : LockedSend(c))
    \/ OnEvent \/ Dispatcher
    \/ \E i \in 1..MaxTasks : HandlerTask(i)

\* the receive pump's step on a reply
PumpReplyStep == pumpItem.kind = "reply" /\ TablePumpDispatch

\* The receive pump's step on a command packet is enabled exactly when the
\* pump stands at its match with a command, and the step leaves the match:
\* its weak fairness is that the pump does not stand there forever.
PumpEventPending == pumpPc = "dispatch" /\ pumpItem.kind = "command"

\* Every spawned task that can run is run, create() and every send() that
\* has begun go on, the peer writes its preamble and answers, and handlers
\* complete.  A user task need not call send() or on_event(), and the peer
\* need not send events.
LockFairness ==
    /\ WF_vars(Create)
    /\ WF_vars(SendEncode(0))
    /\ \A c \in Callers : WF_vars(SendOn(c))
    /\ WF_vars(PeerPreamble \/ LockPeerReply)
    /\ WF_vars(ReaderForward)
    /\ WF_vars(PumpRecv \/ PumpReplyStep)
    /\ []<>(~PumpEventPending)
    /\ WF_vars(OnEventPush)
    /\ WF_vars(Dispatcher)
    /\ \A i \in 1..MaxTasks : WF_vars(HandlerTask(i))

LockSpec == LockInit /\ [][LockNext]_vars /\ LockFairness

\* the receive pump has a packet to take and the read guard of the codec to
\* obtain for it
PumpWantsCodec == pumpPc = "recv" /\ rawChan # <<>> /\ Head(rawChan).kind # "err"

\* a task that waits for a lock stops waiting only by obtaining the lock, or
\* by being aborted with the client
GrantedOrAborted ==
    /\ createPc = "codec_wait" => createPc' \in {"codec_wait", "codec_write"}
    /\ PumpWantsCodec => (PumpWantsCodec' \/ pumpPc' = "dispatch" \/ ~PumpRunning')
    /\ \A c \in Callers :
          /\ pc[c] = "insert" => pc'[c] \in {"insert", "inserting"}
          /\ pc[c] = "lock_sink" => pc'[c] \in {"lock_sink", "writing"}
          /\ (pc[c] = "writing" /\ pc'[c] = "writing") => sinkOwner' = c
          /\ (pc[c] = "await" /\ rx[c] # <<>>) => (pc'[c] \in {"await", "done"} /\ rx'[c] # <<>>)
    /\ onPc = "waiting" => (onPc' = "waiting" \/ Len(event_handlers') = Len(event_handlers) + 1)
    /\ dispPc = "lock" => (dispPc' \in {"lock", "aborted"} \/ (dispPc' = "join" /\ handlersRead'))

\* C38: no lock of a connection deadlocks.  Under the fairness of the
\* scheduler, with a peer that answers and handlers that complete, no task
\* waits for a lock for ever, and a task that waits stops waiting only by
\* obtaining the lock (or by being aborted with the client): create() for
\* the write guard of the codec; the receive pump for the read guard of the
\* codec and, at its match, for the guard of the pending-reply table; a
\* send() for the guard of the pending-reply table, for the sink mutex and,
\* once its reply is there, for the read guard of the codec; on_event() for
\* the write guard of the handler list; the dispatcher for its read guard.
C38_LocksGranted ==
    /\ []<>(createPc # "codec_wait")
    /\ []<>(~PumpWantsCodec)
    /\ []<>(pumpPc # "dispatch")
    /\ \A c \in Callers : []<>(pc[c] # "insert")
    /\ \A c \in Callers : []<>(pc[c] # "lock_sink")
    /\ \A c \in Callers : []<>(~(pc[c] = "await" /\ rx[c] # <<>>))
    /\ []<>(onPc # "waiting")
    /\ []<>(dispPc # "lock")
    /\ [][GrantedOrAborted]_vars

\* C38 witness: every lock is contended at once or in turn; here a send()
\* waits for the sink mutex that another send() holds while on_event() waits
\* for the handler list that the dispatcher holds for a running handler.
C38_LocksContended ==
    /\ \E c, d \in Users : pc[c] = "lock_sink" /\ pc[d] = "writing" /\ sinkOwner = d
    /\ onPc = "waiting"
    /\ handlersRead
    /\ \E i \in 1..Len(tasks) : tasks[i].st = "OutputFuture"

\* ------------------------------------------------- the dispatcher's batches

\* handler tasks of the current JoinSet that have not completed
Unfinished == {i \in 1..Len(tasks) : tasks[i].st \in {"Init", "OutputFuture"}}

\* a handler task is started in this step
TaskStarted ==
    \E i \in 1..Len(tasks') :
       tasks'[i].st = "Init" /\ (i > Len(tasks) \/ tasks[i].st # "Init")

\* C39: the dispatcher works in batches.  While a handler task of the
\* current batch has not completed the dispatcher is at its join and holds
\* the read guard of the handler list; no handler task is started before
\* every task of the batch before has completed; the read guard is given up
\* only when every task of the batch has completed (or with the client); so
\* on_event() adds a handler only while no batch runs.
C39_Batches ==
    /\ [](Unfinished # {} => (handlersRead /\ dispPc = "join"))
    /\ [][TaskStarted => (Unfinished = {} /\ handlersRead')]_vars
    /\ [][(handlersRead /\ ~handlersRead') =>
             (client' = "dropped" \/ \A i \in 1..Len(tasks) :
                                        tasks[i].st \in {"Done", "Failed"})]_vars
    /\ [][event_handlers' # event_handlers => (~handlersRead /\ Unfinished = {})]_vars

\* C39 witness: a handler runs on the first composite while the next
\* composite waits in the queue and on_event() waits for the write guard
C39_NextWaitsForBatch ==
    /\ Unfinished # {}
    /\ \E i \in 1..Len(tasks) : tasks[i].st = "OutputFuture"
    /\ eventChan # <<>>
    /\ onPc = "waiting"
    /\ handlersRead

\* ------------------------------------------- the future of an owned handler

\* Number of HandleEvent futures that are created.
MaxFutures == 3

\* the (policy, event) pairs the futures are created with
HandleInputs ==
    { [policy |-> p, event |-> [kind |-> 99, fields |-> <<r>>]] : p \in {0, 2}, r \in {5, 6} }

\* HandleEvent::new: state Init, the event in its Option.  The model adds
\* what the state's payload holds: the mutex guard while the
\* MutexGuardFuture arm runs, the number of calls of the wrapped function
\* and their arguments, the handler's future (None, Created, Pending, or its
\* result) and what poll has returned.
HandleEventNew(h, policy, event) ==
    [h |-> h, policy |-> policy, event |-> event, st |-> "Init",
     slot |-> << <<policy, event>> >>, guard |-> FALSE, calls |-> 0, args |-> <<>>,
     fut |-> "None", out |-> "Pending"]

\* everything but the futures and the record of the handlers' invocations
handleRest ==
    << createVars, peerVars, readerVars, pumpVars, lockVars, callVars, sinkVars,
       next_id, one_shots, codec, eventChan, event_handlers, onPc, handlersRead,
       dispPc, buffered, flushedWith >>

\* OwnedEventHandler::handle_event(self, policy, event)
HandleEventCall ==
    /\ Len(tasks) < MaxFutures
    /\ \E h \in Handlers, in \in HandleInputs :
          tasks' = Append(tasks, HandleEventNew(h, in.policy, in.event))
    /\ UNCHANGED << handled, handleRest >>

\* poll, arm Init: the future of lock_owned() is made
PollInit(i) ==
    /\ i \in 1..Len(tasks)
    /\ tasks[i].st = "Init"
    /\ tasks' = [tasks EXCEPT ![i].st = "MutexGuardFuture"]
    /\ UNCHANGED << handled, handleRest >>

\* tokio::sync::Mutex: the guard is granted while no other guard of the
\* handler's mutex is out
HandlerLockFree(ts, h) == \A j \in 1..Len(ts) : ts[j].h = h => ~ts[j].guard

\* poll, arm MutexGuardFuture: the guard future is ready
PollGuardReady(i) ==
    /\ i \in 1..Len(tasks)
    /\ tasks[i].st = "MutexGuardFuture"
    /\ ~tasks[i].guard
    /\ HandlerLockFree(tasks, tasks[i].h)
    /\ tasks' = [tasks EXCEPT ![i].guard = TRUE]
    /\ UNCHANGED << handled, handleRest >>

\* poll, arm MutexGuardFuture, Poll::Ready(item): me.event.take().unwrap(),
\* item(policy, event), *state = OutputFuture(future)
PollInvoke(i) ==
    /\ i \in 1..Len(tasks)
    /\ tasks[i].st = "MutexGuardFuture"
    /\ tasks[i].guard
    /\ tasks[i].slot # <<>>
    /\ tasks' = [tasks EXCEPT ![i].slot = <<>>,
                              ![i].calls = @ + 1,
                              ![i].args = tasks[i].slot[1],
                              ![i].fut = "Created",
                              ![i].st = "OutputFuture"]
    /\ handled' = [handled EXCEPT ![tasks[i].h] =
                      Append(@, [policy |-> tasks[i].slot[1][1],
                                 event |-> tasks[i].slot[1][2]])]
    /\ UNCHANGED handleRest

\* the end of the Poll::Ready(item) arm: item, the guard, is dropped
PollArmEnd(i) ==
    /\ i \in 1..Len(tasks)
    /\ tasks[i].st = "OutputFuture"
    /\ tasks[i].guard
    /\ tasks' = [tasks EXCEPT ![i].guard = FALSE]
    /\ UNCHANGED << handled, handleRest >>

\* poll, arm OutputFuture: the handler's future is not ready
PollOutputPending(i) ==
    /\ i \in 1..Len(tasks)
    /\ tasks[i].st = "OutputFuture"
    /\ ~tasks[i].guard
    /\ tasks[i].fut = "Created"
    /\ tasks' = [tasks EXCEPT ![i].fut = "Pending"]
    /\ UNCHANGED << handled, handleRest >>

\* a future that resolves to Ok(()) whatever the handler's future produced
PollOutputReadyOk(i) ==
    /\ i \in 1..Len(tasks)
    /\ tasks[i].st = "OutputFuture"
    /\ ~tasks[i].guard
    /\ tasks' = [tasks EXCEPT ![i].fut = HandlerResult(tasks[i].h, tasks[i].args[2]),
                              ![i].st = "Done",
                              ![i].out = "Done"]
    /\ UNCHANGED << handled, handleRest >>

\* poll, arm OutputFuture, Poll::Ready(ready): *state = Done and
\* Poll::Ready(ready)
PollOutputReady(i) ==
    /\ i \in 1..Len(tasks)
    /\ tasks[i].st = "OutputFuture"
    /\ ~tasks[i].guard
    /\ LET ready == HandlerResult(tasks[i].h, tasks[i].args[2]) IN
       tasks' = [tasks EXCEPT ![i].fut = ready,
                              ![i].st = "Done",
                              ![i].out = ready]
    /\ UNCHANGED << handled, handleRest >>

\* impl Future for HandleEvent: one arm of poll
HandleEventPoll(i) ==
    \/ PollInit(i) \/ PollGuardReady(i) \/ PollInvoke(i) \/ PollArmEnd(i)
    \/ PollOutputPending(i) \/ PollOutputReady(i)

HandleInit == InitWith({<<4, 4, 4, 4, 4>>})

HandleNext == HandleEventCall \/ \E i \in 1..MaxFutures : HandleEventPoll(i)

HandleSpec == HandleInit /\ [][HandleNext]_vars

\* the order of the states of HandleEventState
StateRank(st) ==
    CASE st = "Init" -> 0
      [] st = "MutexGuardFuture" -> 1
      [] st = "OutputFuture" -> 2
      [] st = "Done" -> 3

\* the handler's future of task t has been polled
FutureRan(t) == t.fut \in {"Pending", "Done", "Failed"}

\* C40: the future of an owned handler's handle_event moves only forward,
\* one state at a time, through Init, MutexGuardFuture, OutputFuture, Done;
\* it has called the wrapped function not at all before OutputFuture and
\* exactly once from then on, with the (policy, event) it was created with;
\* the handler's mutex has one holder at most and is not held by the future
\* when the handler's future is polled; and the future resolves, in Done, to
\* the result the handler's future produced.
C40_HandleEvent ==
    /\ [](\A i \in 1..Len(tasks) :
            LET t == tasks[i] IN
            /\ t.calls = (IF t.st \in {"Init", "MutexGuardFuture"} THEN 0 ELSE 1)
            /\ t.calls = 1 => t.args = <<t.policy, t.event>>
            /\ FutureRan(t) => ~t.guard
            /\ t.guard => \A j \in 1..Len(tasks) : (j # i /\ tasks[j].h = t.h) => ~tasks[j].guard
            /\ (t.st = "Done") = (t.out # "Pending")
            /\ t.st = "Done" => (t.out = t.fut /\ t.fut = HandlerResult(t.h, t.event)))
    /\ [](\A h \in Handlers :
            Len(handled[h]) = Cardinality({i \in 1..Len(tasks) :
                                             tasks[i].h = h /\ tasks[i].calls = 1}))
    /\ [][\A i \in 1..Len(tasks) :
            /\ StateRank(tasks'[i].st) - StateRank(tasks[i].st) \in {0, 1}
            /\ tasks'[i].fut # tasks[i].fut /\ tasks[i].fut # "None" => ~tasks[i].guard]_vars

\* C40 witness: a future has resolved to the error its handler's future
\* produced, while of two more futures of one handler one holds the
\* handler's mutex, the function called, and the other waits for it
C40_ResolvedAndContended ==
    /\ \E i \in 1..Len(tasks) :
          tasks[i].st = "Done" /\ tasks[i].out = "Failed" /\ tasks[i].calls = 1
    /\ \E i, j \in 1..Len(tasks) :
          /\ i # j
          /\ tasks[i].h = tasks[j].h
          /\ tasks[i].guard /\ tasks[i].st = "OutputFuture"
          /\ tasks[j].st = "MutexGuardFuture"

====
